---- MODULE Spec2Model ----
(***************************************************************************)
(* A model of the streaming-preview core of the Obsidian Copilot plugin:   *)
(*   - the range tracker (requestPositionTracker) that maps a selection    *)
(*     range through document edits,                                       *)
(*   - the overlay engine (SpinnerPlugin) that renders loader / streamed   *)
(*     text widgets anchored to offsets,                                   *)
(*   - the diff review controller (showInlineDiff) that resolves one       *)
(*     keep / undo decision from keyboard and button inputs.               *)
(* Offsets are 0-based as in the source; a string is a sequence of         *)
(* one-character strings.                                                  *)
(***************************************************************************)
EXTENDS Integers, Sequences, FiniteSets, TLC

\* ------------------------------------------------------------------ bounds
\* Longest document of the tracker and overlay specifications.
MaxDocLen == 3
\* Number of ranges the tracker specification registers over a run.
MaxRanges == 2
\* Longest document of the wide tracker specification (one range).
MaxWideDoc == 25
\* Number of overlay entries the overlay specification shows over a run.
MaxShows == 2
\* Longest document of the overlay specification.
MaxOverlayDoc == 1
\* Longest text handed to processText in the widget specification.
MaxTextLen == 3
\* Number of diff reviews the diff specification starts over a run.
MaxSessions == 2
\* Longest document of the diff specification.
MaxDiffDoc == 1
\* Number of executeAction calls the generation specification makes.
MaxRequests == 2
\* Longest document the generation specification starts from or edits.
MaxGenDoc == 1
\* Longest text a generation accumulates.
MaxAccum == 1
\* Longest text a generation accumulates in the fair generation specification.
MaxStream == 2
\* Longest document of the core specification.
MaxCoreDoc == 1
\* Longest document of the overlay remapping specification.
MaxRemapDoc == 3
\* Longest text one edit of the remapping specification inserts.
MaxRemapInsert == 2
\* Most handleSendMessage calls, and the number of chat threads.
MaxChatCalls == 3
\* Most handleSendMessage calls of the chat sessions specification.
MaxSessionCalls == 3
MaxThreads == 2
\* Most chunks one assistant message receives.
MaxChatText == 2
\* Longest text in the input of the inline edit popup.
MaxPopupInput == 3
\* Longest document of the diff decoration specification.
MaxDecoDoc == 3

\* ------------------------------------------------------------ state
VARIABLES
  doc,            \* the document text (editorView.state.doc)
  ranges,         \* the tracker registry: id -> [from, to]
  nextRangeId,    \* the last id handed out by trackSelectionRange
  issuedIds,      \* history: the ids trackSelectionRange returned, in order
  releasedIds,    \* history: the registered ids that were released
  entries,        \* SpinnerPlugin.entries: id -> [position, isEndOfLine, widget]
  positionToId,   \* SpinnerPlugin.positionToId: position -> id
  idCounter,      \* SpinnerPlugin.idCounter
  decorations,    \* SpinnerPlugin.decorations, in the order they were added
  shownAt,        \* history: the position each live entry was shown at
  variant,        \* the revision of inlineDiffView in use: "widget" | "toolbar"
  sessions,       \* the promise of each diff review started: [decision]
  listeners,      \* capture-phase keydown listeners of `document`, by session
  activeDiffCallbacks,  \* the module-level slot: a session, or NoSession
  diffDeco,       \* the value of inlineDiffField
  toolbars,       \* the sessions whose DiffToolbar container is attached
  firstInput,     \* history: the first decisive input each session was sent
  requests,       \* the executeAction calls made: the locals of each call
  abortControllers,  \* CopilotPlugin.abortControllers: the calls listed
  activeSessions,    \* ChatSessionManager.activeSessions: thread -> session
  activeMessageId,   \* ChatSessionManager.activeMessageId
  handlerRegistered, \* ChatSessionManager.handlerRegistered: threads
  currentDeltaHandler,  \* ChatSessionManager._currentDeltaHandler: its closure
  sessionHandlers,   \* the sessions that have the 'assistant.message_delta' listener
  sessionThread,     \* history: the thread each created session was created for
  destroying,        \* thread -> the session whose destroy() its destroySession awaits
  destroyAll,        \* the destroyAllSessions call awaiting Promise.all, if any
  destroyedSessions, \* history: the sessions whose destroy() has settled
  chatCalls,         \* the handleSendMessage calls made: the locals of each call
  chatAbortController,  \* CopilotChatView.abortController: the call it belongs to
  sendButtonDisabled,   \* CopilotChatView.sendButton.disabled
  popup,             \* the InlineEditPopup instance
  lastOp          \* the last operation, its arguments and what it returned

trackerVars == <<ranges, nextRangeId, issuedIds, releasedIds>>
overlayVars == <<entries, positionToId, idCounter, decorations, shownAt>>
diffVars == <<sessions, listeners, activeDiffCallbacks, diffDeco, toolbars, firstInput>>
genVars == <<requests, abortControllers>>
managerVars == <<activeSessions, activeMessageId, handlerRegistered, currentDeltaHandler,
                 sessionHandlers, sessionThread, destroying, destroyAll,
                 destroyedSessions>>
chatVars == <<managerVars, chatCalls, chatAbortController, sendButtonDisabled>>
vars == <<doc, variant, trackerVars, overlayVars, diffVars, genVars, chatVars,
          popup, lastOp>>

\* ------------------------------------------------------------ helpers
NotFound == [found |-> FALSE]
NoOp == [op |-> "none"]

Max2(a, b) == IF a >= b THEN a ELSE b

Range(f) == {f[i] : i \in DOMAIN f}

RECURSIVE Repeat(_, _)
\* The string made of n copies of the character c.
Repeat(c, n) == IF n = 0 THEN <<>> ELSE <<c>> \o Repeat(c, n - 1)

\* The document after replacing [chFrom, chTo) by the text ins.
ApplyChange(d, chFrom, chTo, ins) ==
  SubSeq(d, 1, chFrom) \o ins \o SubSeq(d, chTo + 1, Len(d))

\* A change [chFrom, chTo) -> insLen that is no position mapping at all when
\* the position sits inside the replaced span: the position is kept as it is.
MapPosNoCollapse(pos, assoc, chFrom, chTo, insLen) ==
  IF pos < chFrom THEN pos
  ELSE IF chTo > pos THEN pos
  ELSE chFrom + insLen + (pos - chTo)

\* A mapping that ignores the bias: an insertion at pos never moves pos.
MapPosNoBias(pos, assoc, chFrom, chTo, insLen) ==
  IF pos < chFrom THEN pos
  ELSE IF chTo > pos \/ (chTo = pos /\ chFrom = chTo) THEN chFrom
  ELSE chFrom + insLen + (pos - chTo)

\* ChangeDesc.mapPos of the document model for one replaced span
\* [chFrom, chTo) -> insLen characters: assoc < 0 keeps the position before
\* text inserted at it (StickyLeft), assoc > 0 moves it after (StickyRight).
MapPos(pos, assoc, chFrom, chTo, insLen) ==
  IF pos < chFrom THEN pos
  ELSE IF chTo > pos \/ (chTo = pos /\ assoc < 0 /\ chFrom = chTo)
       THEN IF pos = chFrom \/ assoc < 0 THEN chFrom ELSE chFrom + insLen
  ELSE chFrom + insLen + (pos - chTo)

StickyLeft == -1
StickyRight == 1

\* ------------------------------------------------------------ range tracker
\* The registry entry of one range after an edit: the start keeps to the left
\* of text inserted at it, the end moves to its right.
MapRange(r, chFrom, chTo, insLen) ==
  [from |-> MapPos(r.from, StickyLeft, chFrom, chTo, insLen),
   to   |-> MapPos(r.to, StickyRight, chFrom, chTo, insLen)]

\* A remapping that drops the ranges whose span an edit has emptied.
mapThroughEditDropping(rs, chFrom, chTo, insLen) ==
  [id \in {j \in DOMAIN rs :
             LET m == MapRange(rs[j], chFrom, chTo, insLen) IN m.from < m.to} |->
     MapRange(rs[id], chFrom, chTo, insLen)]

\* mapThroughEdit: every tracked range is remapped, none is dropped.
mapThroughEdit(rs, chFrom, chTo, insLen) ==
  [id \in DOMAIN rs |-> MapRange(rs[id], chFrom, chTo, insLen)]

\* getTrackedRange(view, id): the mapped range with its insert-after offset,
\* or not-found (null) for an id that is not registered.
getTrackedRangeIn(rs, id) ==
  IF id \in DOMAIN rs
  THEN [found |-> TRUE, from |-> rs[id].from, to |-> rs[id].to,
        insertAfter |-> rs[id].to]
  ELSE NotFound

getTrackedRange(id) == getTrackedRangeIn(ranges, id)

\* The id a registration takes when ids are recycled: the smallest free one.
FreshIdReusing == CHOOSE i \in 1..(Cardinality(DOMAIN ranges) + 1) : i \notin DOMAIN ranges

\* The id of the next registration: one more than the last id handed out.
FreshId == nextRangeId + 1

\* The registry of the tracker with the histories kept about it.
TrackerState ==
  [ranges |-> ranges, nextRangeId |-> nextRangeId,
   issuedIds |-> issuedIds, releasedIds |-> releasedIds]

SetTrackerState(tr) ==
  /\ ranges' = tr.ranges
  /\ nextRangeId' = tr.nextRangeId
  /\ issuedIds' = tr.issuedIds
  /\ releasedIds' = tr.releasedIds

\* trackSelectionRange on the tracker state tr, registering [from, to) as id.
trackOn(tr, from, to, id) ==
  [ranges |-> [j \in DOMAIN tr.ranges \cup {id} |->
                 IF j = id THEN [from |-> from, to |-> to] ELSE tr.ranges[j]],
   nextRangeId |-> Max2(tr.nextRangeId, id),
   issuedIds |-> Append(tr.issuedIds, id),
   releasedIds |-> tr.releasedIds]

\* trackSelectionRange(view, from, to) -> id
trackSelectionRange(from, to) ==
  /\ from <= to /\ to <= Len(doc)
  /\ SetTrackerState(trackOn(TrackerState, from, to, FreshId))
  /\ UNCHANGED <<chatVars, popup>>
  /\ lastOp' = [op |-> "register", id |-> FreshId]
  /\ UNCHANGED <<doc, overlayVars, variant, diffVars>>
  /\ UNCHANGED genVars

\* A release that forgets to delete the registry entry.
releaseTrackedRangeKeeps(id) ==
  /\ releasedIds' = releasedIds \cup ({id} \cap Range(issuedIds))
  /\ UNCHANGED <<chatVars, popup>>
  /\ lastOp' = [op |-> "release", id |-> id]
  /\ UNCHANGED <<doc, ranges, nextRangeId, issuedIds, overlayVars, variant, diffVars>>
  /\ UNCHANGED genVars

\* releaseTrackedRange on the tracker state tr.
releaseOn(tr, id) ==
  [tr EXCEPT !.ranges = [j \in DOMAIN tr.ranges \ {id} |-> tr.ranges[j]],
             !.releasedIds = tr.releasedIds \cup ({id} \cap Range(tr.issuedIds))]

\* releaseTrackedRange(view, id): removes the entry; unknown ids are ignored.
releaseTrackedRange(id) ==
  /\ SetTrackerState(releaseOn(TrackerState, id))
  /\ UNCHANGED <<chatVars, popup>>
  /\ lastOp' = [op |-> "release", id |-> id]
  /\ UNCHANGED <<doc, overlayVars, variant, diffVars>>
  /\ UNCHANGED genVars

\* A caller looking a range up; the lookup changes nothing.
Query(id) ==
  /\ UNCHANGED <<chatVars, popup>>
  /\ lastOp' = [op |-> "query", id |-> id, result |-> getTrackedRange(id)]
  /\ UNCHANGED <<doc, trackerVars, overlayVars, variant, diffVars>>
  /\ UNCHANGED genVars

\* ------------------------------------------------------------ strings
IsSpace(c) == c \in {" ", "\n"}

RECURSIVE TrimStart(_)
TrimStart(t) ==
  IF t # <<>> /\ IsSpace(Head(t)) THEN TrimStart(Tail(t)) ELSE t

RECURSIVE TrimEnd(_)
TrimEnd(t) ==
  IF t # <<>> /\ IsSpace(t[Len(t)]) THEN TrimEnd(SubSeq(t, 1, Len(t) - 1)) ELSE t

\* String.prototype.trim
Trim(t) == TrimEnd(TrimStart(t))

\* String.prototype.startsWith
StartsWith(t, prefix) ==
  Len(prefix) <= Len(t) /\ SubSeq(t, 1, Len(prefix)) = prefix

\* The first offset at which pat occurs in t, Len(t) + 1 when there is none.
IndexOf(t, pat) ==
  LET hits == {i \in 0..(Len(t) - Len(pat)) : SubSeq(t, i + 1, i + Len(pat)) = pat} IN
  IF hits = {} THEN Len(t) + 1 ELSE CHOOSE i \in hits : \A j \in hits : i <= j

\* String.prototype.replace(pat, ''): the first occurrence of pat is removed.
RemoveFirst(t, pat) ==
  LET i == IndexOf(t, pat) IN
  IF i > Len(t) THEN t
  ELSE SubSeq(t, 1, i) \o SubSeq(t, i + Len(pat) + 1, Len(t))

\* CopilotPlugin.processText(text, selectedText): the generated text without
\* the selection it echoes, between two line breaks.
PluginProcessText(t, selectedText) ==
  IF Trim(t) = <<>> THEN <<>>
  ELSE <<"\n">> \o Trim(RemoveFirst(Trim(t), selectedText)) \o <<"\n">>

\* The transforms a caller hands to processText: none, or the plugin's own
\* for the selection of the request.
NoTransform == [kind |-> "none", selection |-> <<>>]

PluginTransform(selectedText) == [kind |-> "plugin", selection |-> selectedText]

Transforms == {NoTransform, PluginTransform(<<>>)}

ApplyTransform(f, t) ==
  IF f.kind = "plugin" THEN PluginProcessText(t, f.selection) ELSE t

\* ------------------------------------------------------------ overlay widgets
\* new LoaderWidget()
LoaderWidget ==
  [kind |-> "loader", text |-> <<>>, rendered |-> FALSE,
   plain |-> <<>>, marked |-> <<>>]

\* new ContentWidget(text): no DOM until toDOM is called.
ContentWidget(t) ==
  [kind |-> "content", text |-> t, rendered |-> FALSE,
   plain |-> <<>>, marked |-> <<>>]

\* ContentWidget.toDOM: creates the element once, showing the text.
toDOM(w) ==
  IF w.kind = "content" /\ ~w.rendered
  THEN [w EXCEPT !.rendered = TRUE, !.plain = w.text, !.marked = <<>>]
  ELSE w

\* An update that re-marks nothing: the element always shows the plain text.
updateTextNoMark(w, newText) ==
  IF w.rendered /\ w.text # newText
  THEN [w EXCEPT !.text = newText, !.plain = newText, !.marked = <<>>]
  ELSE w

\* ContentWidget.updateText: the element keeps the old text and gets the
\* added chunk in an animated span when the new text extends the old one,
\* otherwise its content is replaced.
updateText(w, newText) ==
  IF w.rendered /\ w.text # newText
  THEN IF StartsWith(newText, w.text)
       THEN LET addedText == SubSeq(newText, Len(w.text) + 1, Len(newText)) IN
            IF addedText # <<>>
            THEN [w EXCEPT !.text = newText,
                           !.plain = SubSeq(newText, 1, Len(newText) - Len(addedText)),
                           !.marked = addedText]
            ELSE [w EXCEPT !.text = newText]
       ELSE [w EXCEPT !.text = newText, !.plain = newText, !.marked = <<>>]
  ELSE w

\* ------------------------------------------------------------ overlay engine
\* SpinnerPlugin.isPositionAtEndOfLine: position === doc.lineAt(position).to
isPositionAtEndOfLine(d, position) ==
  position = Len(d) \/ d[position + 1] = "\n"

RECURSIVE EntryIdsUpTo(_, _)
EntryIdsUpTo(es, n) ==
  IF n = 0 THEN <<>>
  ELSE IF n \in DOMAIN es THEN Append(EntryIdsUpTo(es, n - 1), n)
  ELSE EntryIdsUpTo(es, n - 1)

\* The greatest id among the entries, 0 when there is none.
LastEntryId(es) ==
  IF DOMAIN es = {} THEN 0 ELSE CHOOSE m \in DOMAIN es : \A j \in DOMAIN es : j <= m

\* The ids of entries.values() in Map iteration order, i.e. insertion order
\* (ids are handed out in increasing order).
EntryIds(es) == EntryIdsUpTo(es, LastEntryId(es))

\* A sort step that leaves the entry where the iteration found it.
InsertUnsorted(sorted, id, es) == Append(sorted, id)

\* One step of the stable sort by position: id goes behind every entry whose
\* position is not greater.
InsertByPosition(sorted, id, es) ==
  LET k == Cardinality({i \in 1..Len(sorted) :
                          es[sorted[i]].position <= es[id].position}) IN
  SubSeq(sorted, 1, k) \o <<id>> \o SubSeq(sorted, k + 1, Len(sorted))

RECURSIVE SortByPosition(_, _)
\* [...entries.values()].sort((a, b) => a.position - b.position)
SortByPosition(ids, es) ==
  IF ids = <<>> THEN <<>>
  ELSE InsertByPosition(SortByPosition(SubSeq(ids, 1, Len(ids) - 1), es),
                        ids[Len(ids)], es)

\* SpinnerPlugin.updateDecorations: one widget decoration per entry.
BuildDecorations(es) ==
  LET sorted == SortByPosition(EntryIds(es), es) IN
  [i \in 1..Len(sorted) |->
     [pos  |-> es[sorted[i]].position,
      side |-> IF es[sorted[i]].isEndOfLine THEN 1 ELSE -1,
      id   |-> sorted[i],
      kind |-> es[sorted[i]].widget.kind]]

\* The fields of the SpinnerPlugin instance, and the history kept with them.
OverlayState ==
  [entries |-> entries, positionToId |-> positionToId,
   idCounter |-> idCounter, decorations |-> decorations, shownAt |-> shownAt]

SetOverlayState(ov) ==
  /\ entries' = ov.entries
  /\ positionToId' = ov.positionToId
  /\ idCounter' = ov.idCounter
  /\ decorations' = ov.decorations
  /\ shownAt' = ov.shownAt

\* A show that hands out the smallest id no live entry has.
showOnReusing(ov, d, position) ==
  LET id == CHOOSE i \in 1..(ov.idCounter + 1) :
              /\ i \notin DOMAIN ov.entries
              /\ \A j \in 1..(i - 1) : j \in DOMAIN ov.entries
      es == [j \in DOMAIN ov.entries \cup {id} |->
               IF j = id
               THEN [position |-> position,
                     isEndOfLine |-> isPositionAtEndOfLine(d, position),
                     widget |-> LoaderWidget]
               ELSE ov.entries[j]] IN
  [entries |-> es,
   positionToId |-> [q \in DOMAIN ov.positionToId \cup {position} |->
                       IF q = position THEN id ELSE ov.positionToId[q]],
   idCounter |-> Max2(ov.idCounter, id),
   decorations |-> BuildDecorations(es),
   shownAt |-> [j \in DOMAIN ov.shownAt \cup {id} |->
                  IF j = id THEN position ELSE ov.shownAt[j]]]

\* SpinnerPlugin.show(position) on the plugin state ov over the document d;
\* the new entry has the id ov.idCounter + 1.
showOn(ov, d, position) ==
  LET id == ov.idCounter + 1
      es == [j \in DOMAIN ov.entries \cup {id} |->
               IF j = id
               THEN [position |-> position,
                     isEndOfLine |-> isPositionAtEndOfLine(d, position),
                     widget |-> LoaderWidget]
               ELSE ov.entries[j]] IN
  [entries |-> es,
   positionToId |-> [q \in DOMAIN ov.positionToId \cup {position} |->
                       IF q = position THEN id ELSE ov.positionToId[q]],
   idCounter |-> id,
   decorations |-> BuildDecorations(es),
   shownAt |-> [j \in DOMAIN ov.shownAt \cup {id} |->
                  IF j = id THEN position ELSE ov.shownAt[j]]]

\* SpinnerPlugin.show(position) -> dispose handle for the new id
show(position) ==
  /\ position \in 0..Len(doc)
  /\ SetOverlayState(showOn(OverlayState, doc, position))
  /\ UNCHANGED <<chatVars, popup>>
  /\ lastOp' = [op |-> "show", position |-> position, id |-> idCounter + 1]
  /\ UNCHANGED <<doc, variant, diffVars, trackerVars>>
  /\ UNCHANGED genVars

\* A hide that leaves the decorations as they were.
hideOnStale(ov, id) ==
  IF id \in DOMAIN ov.entries
  THEN [ov EXCEPT !.positionToId =
                     [q \in DOMAIN ov.positionToId \ {ov.entries[id].position} |->
                        ov.positionToId[q]],
                  !.entries = [j \in DOMAIN ov.entries \ {id} |-> ov.entries[j]],
                  !.shownAt = [j \in DOMAIN ov.shownAt \ {id} |-> ov.shownAt[j]]]
  ELSE ov

\* SpinnerPlugin.hide(id) on the plugin state ov.
hideOn(ov, id) ==
  IF id \in DOMAIN ov.entries
  THEN LET es == [j \in DOMAIN ov.entries \ {id} |-> ov.entries[j]] IN
       [ov EXCEPT !.positionToId =
                     [q \in DOMAIN ov.positionToId \ {ov.entries[id].position} |->
                        ov.positionToId[q]],
                  !.entries = es,
                  !.decorations = BuildDecorations(es),
                  !.shownAt = [j \in DOMAIN ov.shownAt \ {id} |-> ov.shownAt[j]]]
  ELSE ov

\* SpinnerPlugin.hide(id), also the dispose handle returned by show
hide(id) ==
  /\ SetOverlayState(hideOn(OverlayState, id))
  /\ UNCHANGED <<chatVars, popup>>
  /\ lastOp' = [op |-> "hide", id |-> id, removed |-> id \in DOMAIN entries]
  /\ UNCHANGED <<doc, variant, diffVars, trackerVars>>
  /\ UNCHANGED genVars

\* updateEntry of SpinnerPlugin.updateContent
updateEntry(data, text) ==
  IF data.widget.kind = "loader"
  THEN [data EXCEPT !.widget = ContentWidget(text)]
  ELSE [data EXCEPT !.widget = updateText(data.widget, text)]

NoPosition == -1

\* The ids updateContent reaches in the plugin state ov: the one positionToId
\* has for originalPosition, or every entry when no position is given.
UpdateTargetsOn(ov, originalPosition) ==
  IF originalPosition # NoPosition
  THEN IF originalPosition \in DOMAIN ov.positionToId
          /\ ov.positionToId[originalPosition] \in DOMAIN ov.entries
       THEN {ov.positionToId[originalPosition]}
       ELSE {}
  ELSE DOMAIN ov.entries

UpdateTargets(originalPosition) == UpdateTargetsOn(OverlayState, originalPosition)

\* SpinnerPlugin.updateContent(text, originalPosition) on the plugin state ov.
updateContent(ov, text, originalPosition) ==
  LET targets == UpdateTargetsOn(ov, originalPosition)
      es == [j \in DOMAIN ov.entries |->
               IF j \in targets THEN updateEntry(ov.entries[j], text)
               ELSE ov.entries[j]] IN
  [ov EXCEPT !.entries = es,
             !.decorations = IF targets # {} THEN BuildDecorations(es) ELSE @]

\* A processText that passes every text on, blank or not.
processTextUnguarded(ov, text, processFunc, position) ==
  updateContent(ov, ApplyTransform(processFunc, text), position)

\* SpinnerPlugin.processText(text, processFunc, position) on the plugin
\* state ov.
processTextOn(ov, text, processFunc, position) ==
  IF Trim(text) # <<>>
  THEN updateContent(ov, ApplyTransform(processFunc, text), position)
  ELSE ov

\* SpinnerPlugin.processText(text, processFunc, position)
processText(text, processFunc, position) ==
  /\ SetOverlayState(processTextOn(OverlayState, text, processFunc, position))
  /\ UNCHANGED <<chatVars, popup>>
  /\ lastOp' = IF Trim(text) # <<>>
               THEN [op |-> "processText", text |-> text, position |-> position,
                     display |-> ApplyTransform(processFunc, text), applied |-> TRUE]
               ELSE [op |-> "processText", text |-> text, position |-> position,
                     display |-> <<>>, applied |-> FALSE]
  /\ UNCHANGED <<doc, variant, diffVars, trackerVars>>
  /\ UNCHANGED genVars

\* The editor drawing the widget of one decoration: ContentWidget.toDOM.
Render(id) ==
  /\ \E i \in 1..Len(decorations) : decorations[i].id = id
  /\ id \in DOMAIN entries
  /\ entries[id].widget.kind = "content" /\ ~entries[id].widget.rendered
  /\ entries' = [entries EXCEPT ![id].widget = toDOM(@)]
  /\ UNCHANGED <<chatVars, popup>>
  /\ lastOp' = [op |-> "render", id |-> id]
  /\ UNCHANGED <<doc, variant, diffVars, trackerVars, positionToId, idCounter, decorations,
               shownAt>>
  /\ UNCHANGED genVars

\* An update that maps the positions with the other bias.
UpdateEntriesStickyRight(es, newDoc, chFrom, chTo, insLen) ==
  [j \in DOMAIN es |->
     LET p == MapPos(es[j].position, StickyRight, chFrom, chTo, insLen) IN
     [es[j] EXCEPT !.position = p,
                   !.isEndOfLine = isPositionAtEndOfLine(newDoc, p)]]

\* SpinnerPlugin.update(update) for a transaction that changed the document.
UpdateEntries(es, newDoc, chFrom, chTo, insLen) ==
  [j \in DOMAIN es |->
     LET p == MapPos(es[j].position, StickyLeft, chFrom, chTo, insLen) IN
     [es[j] EXCEPT !.position = p,
                   !.isEndOfLine = isPositionAtEndOfLine(newDoc, p)]]

\* An update that maps the positions and keeps the decorations it had.
updateOnStale(ov, newDoc, chFrom, chTo, insLen) ==
  [ov EXCEPT !.entries = UpdateEntries(ov.entries, newDoc, chFrom, chTo, insLen)]

\* SpinnerPlugin.update on the plugin state ov: the positions are mapped and
\* the decorations rebuilt.
updateOn(ov, newDoc, chFrom, chTo, insLen) ==
  LET es == UpdateEntries(ov.entries, newDoc, chFrom, chTo, insLen) IN
  [ov EXCEPT !.entries = es, !.decorations = BuildDecorations(es)]

\* ------------------------------------------------------------ diff review
NoSession == 0
Pending == "pending"
Keys == {"Tab", "Enter", "Escape", "a"}

\* The listeners left after removeEventListener of the handler of session s.
RemoveListener(ls, s) == SelectSeq(ls, LAMBDA x : x # s)

\* A showDiffEffect that adds its decorations to the ones in place.
ShowDiffDecorationsStacking(from, to, newText, s) ==
  diffDeco
  \cup (IF from < to THEN {[kind |-> "mark", from |-> from, to |-> to,
                            text |-> "", session |-> s]} ELSE {})
  \cup {[kind |-> "widget", from |-> to, to |-> to,
         text |-> newText, session |-> s]}

\* inlineDiffField on showDiffEffect: a mark over [from, to) when it is not
\* empty, and the block widget with the new text at `to`.
ShowDiffDecorations(from, to, newText, s) ==
  (IF from < to THEN {[kind |-> "mark", from |-> from, to |-> to,
                       text |-> "", session |-> s]} ELSE {})
  \cup {[kind |-> "widget", from |-> to, to |-> to,
         text |-> newText, session |-> s]}

\* RangeSet.map for one decoration and one replaced span: a mark that the
\* change empties is dropped, and so is a block widget (side 1) when the text
\* right after it is deleted.
MapDecoration(d, chFrom, chTo, insLen) ==
  IF d.kind = "mark"
  THEN LET f == MapPos(d.from, 1, chFrom, chTo, insLen)
           t == MapPos(d.to, -1, chFrom, chTo, insLen) IN
       IF f >= t THEN {} ELSE {[d EXCEPT !.from = f, !.to = t]}
  ELSE IF chFrom <= d.from /\ d.from < chTo THEN {}
  ELSE LET q == MapPos(d.from, 1, chFrom, chTo, insLen) IN
       {[d EXCEPT !.from = q, !.to = q]}

\* inlineDiffField.update: value.map(tr.changes)
MapDiffDecorations(ds, chFrom, chTo, insLen) ==
  UNION {MapDecoration(d, chFrom, chTo, insLen) : d \in ds}

\* resolve(decision) of the promise of session s: a settled promise stays.
Resolve(st, s, decision) ==
  [st EXCEPT !.sessions[s].decision = IF @ = Pending THEN decision ELSE @]

\* cleanup(decision) of the session s that owns the closure: it removes the
\* keydown handler held by activeDiffCallbacks, clears the slot and the
\* decorations, and resolves the promise of s.
cleanup(st, s, decision) ==
  Resolve([st EXCEPT !.listeners = IF st.active # NoSession
                                   THEN RemoveListener(st.listeners, st.active)
                                   ELSE st.listeners,
                     !.active = NoSession,
                     !.deco = {}],
          s, decision)

\* DiffToolbar.handleKeep / handleUndo of session s: dismiss() removes the
\* toolbar's own listener and container, then the cleanup of showInlineDiff
\* clears the decorations and resolves.
toolbarHandle(st, s, decision) ==
  Resolve([st EXCEPT !.listeners = RemoveListener(st.listeners, s),
                     !.toolbars = st.toolbars \ {s},
                     !.deco = {}],
          s, decision)

\* What either revision does when session s takes a decision.
Decide(st, s, decision) ==
  IF variant = "widget" THEN cleanup(st, s, decision)
  ELSE toolbarHandle(st, s, decision)

\* keydownHandler of session s
keydownHandler(st, s, key) ==
  IF key \in {"Tab", "Enter"}
  THEN Decide([st EXCEPT !.stopped = TRUE], s, "keep")
  ELSE IF key = "Escape"
  THEN Decide([st EXCEPT !.stopped = TRUE], s, "undo")
  ELSE st

RECURSIVE DispatchKey(_, _, _)
\* The capture-phase listeners of `document` run in registration order; a
\* listener removed by an earlier one during the dispatch is not run.
DispatchKey(st, snapshot, key) ==
  IF snapshot = <<>> THEN st
  ELSE LET s == Head(snapshot) IN
       DispatchKey(IF s \in Range(st.listeners) THEN keydownHandler(st, s, key) ELSE st,
                   Tail(snapshot), key)

DiffState ==
  [listeners |-> listeners, active |-> activeDiffCallbacks, deco |-> diffDeco,
   sessions |-> sessions, toolbars |-> toolbars, stopped |-> FALSE]

SetDiffState(st) ==
  /\ listeners' = st.listeners
  /\ activeDiffCallbacks' = st.active
  /\ diffDeco' = st.deco
  /\ sessions' = st.sessions
  /\ toolbars' = st.toolbars

\* The decision an input stands for, "none" for a key that is no shortcut.
DecisionOf(key) ==
  IF key \in {"Tab", "Enter"} THEN "keep"
  ELSE IF key = "Escape" THEN "undo" ELSE "none"

\* History: the first decisive input delivered to each session in `who`.
NoteInput(who, decision) ==
  firstInput' = [s \in DOMAIN firstInput |->
                   IF s \in who /\ firstInput[s] = "none" /\ sessions[s].decision = Pending
                   THEN decision ELSE firstInput[s]]

\* ------------------------------------------------------------ generation requests
\* The state an executeAction call works on: the editor (document, tracker
\* registry, overlay plugin, diff decorations) and the locals of every call.
World ==
  [doc |-> doc, tr |-> TrackerState, ov |-> OverlayState,
   deco |-> diffDeco, reqs |-> requests, list |-> abortControllers]

SetWorld(w) ==
  /\ doc' = w.doc
  /\ SetTrackerState(w.tr)
  /\ SetOverlayState(w.ov)
  /\ diffDeco' = w.deco
  /\ requests' = w.reqs
  /\ abortControllers' = w.list

\* selectionTrackerId = null
NoId == 0

\* One editor transaction replacing [chFrom, chTo) by ins: the tracker, the
\* overlay plugin and the diff field all see the change.
replaceRange(w, chFrom, chTo, ins) ==
  [w EXCEPT !.doc = ApplyChange(w.doc, chFrom, chTo, ins),
            !.tr.ranges = mapThroughEdit(w.tr.ranges, chFrom, chTo, Len(ins)),
            !.ov = updateOn(w.ov, ApplyChange(w.doc, chFrom, chTo, ins),
                            chFrom, chTo, Len(ins)),
            !.deco = MapDiffDecorations(w.deco, chFrom, chTo, Len(ins))]

\* releaseTracker of call r
releaseTracker(w, r) ==
  IF w.reqs[r].selectionTrackerId # NoId
  THEN [w EXCEPT !.tr = releaseOn(w.tr, w.reqs[r].selectionTrackerId),
                 !.reqs[r].selectionTrackerId = NoId]
  ELSE w

\* hideSpinner of call r: the dispose handle that show returned
hideSpinner(w, r) == [w EXCEPT !.ov = hideOn(w.ov, w.reqs[r].spinnerId)]

\* abortController.abort() of call r: the signal becomes aborted and its two
\* listeners run, in the order they were added.
abort(w, r) ==
  IF w.reqs[r].aborted THEN w
  ELSE hideSpinner(releaseTracker([w EXCEPT !.reqs[r].aborted = TRUE], r), r)

RECURSIVE AbortEach(_, _)
\* this.abortControllers.forEach((ac) => ac.abort())
AbortEach(w, list) ==
  IF list = <<>> THEN w ELSE AbortEach(abort(w, Head(list)), Tail(list))

\* CopilotPlugin.escapeHandler for the key of a keydown event
escapeHandler(w, key) ==
  IF key = "Escape"
  THEN [AbortEach(w, w.list) EXCEPT !.list = <<>>]
  ELSE w

\* ------------------------------------------------------------ diff review: inputs
\* A start of a review that writes the proposed text over the span at once.
showInlineDiffApplying(from, to, newText) ==
  LET s == Len(sessions) + 1 IN
  /\ from <= to /\ to <= Len(doc)
  /\ doc' = ApplyChange(doc, from, to, <<"x">>)
  /\ sessions' = Append(sessions, [decision |-> Pending])
  /\ firstInput' = Append(firstInput, "none")
  /\ listeners' = Append(listeners, s)
  /\ diffDeco' = ShowDiffDecorations(from, to, newText, s)
  /\ IF variant = "widget"
     THEN activeDiffCallbacks' = s /\ UNCHANGED toolbars
     ELSE toolbars' = toolbars \cup {s} /\ UNCHANGED activeDiffCallbacks
  /\ UNCHANGED <<chatVars, popup>>
  /\ lastOp' = [op |-> "showInlineDiff", id |-> s,
                from |-> from, to |-> to, newText |-> newText]
  /\ UNCHANGED <<variant, trackerVars, overlayVars, genVars>>

\* showInlineDiff(editorView, from, to, newText)
showInlineDiff(from, to, newText) ==
  LET s == Len(sessions) + 1 IN
  /\ from <= to /\ to <= Len(doc)
  /\ sessions' = Append(sessions, [decision |-> Pending])
  /\ firstInput' = Append(firstInput, "none")
  /\ listeners' = Append(listeners, s)
  /\ diffDeco' = ShowDiffDecorations(from, to, newText, s)
  /\ IF variant = "widget"
     THEN activeDiffCallbacks' = s /\ UNCHANGED toolbars
     ELSE toolbars' = toolbars \cup {s} /\ UNCHANGED activeDiffCallbacks
  /\ UNCHANGED <<chatVars, popup>>
  /\ lastOp' = [op |-> "showInlineDiff", id |-> s,
                from |-> from, to |-> to, newText |-> newText]
  /\ UNCHANGED <<doc, variant, trackerVars, overlayVars>>
  /\ UNCHANGED genVars

\* A keydown event on the document: the capture-phase listeners of the diff
\* reviews run first, and unless one of them stopped the propagation the
\* plugin's escapeHandler (a bubble-phase listener) runs after them.
KeyDown(key) ==
  LET st == DispatchKey(DiffState, listeners, key)
      w == IF st.stopped THEN World ELSE escapeHandler(World, key) IN
  /\ SetDiffState(st)
  /\ SetTrackerState(w.tr)
  /\ SetOverlayState(w.ov)
  /\ requests' = w.reqs
  /\ abortControllers' = w.list
  /\ IF DecisionOf(key) # "none"
     THEN NoteInput(DOMAIN sessions, DecisionOf(key))
     ELSE UNCHANGED firstInput
  /\ UNCHANGED <<chatVars, popup>>
  /\ lastOp' = [op |-> "keydown", key |-> key, stopped |-> st.stopped]
  /\ UNCHANGED <<doc, variant>>

\* A click on the Keep or Undo button of the review widget (the buttons call
\* activeDiffCallbacks?.onKeep / onUndo).
ClickWidgetButton(decision) ==
  /\ variant = "widget"
  /\ \E d \in diffDeco : d.kind = "widget"
  /\ SetDiffState(IF activeDiffCallbacks # NoSession
                  THEN cleanup(DiffState, activeDiffCallbacks, decision)
                  ELSE DiffState)
  /\ NoteInput({d.session : d \in {e \in diffDeco : e.kind = "widget"}}, decision)
  /\ UNCHANGED <<chatVars, popup>>
  /\ lastOp' = [op |-> "click", decision |-> decision]
  /\ UNCHANGED <<doc, variant, trackerVars, overlayVars>>
  /\ UNCHANGED genVars

\* A click on the Keep or Undo button of the toolbar of session s.
ClickToolbarButton(s, decision) ==
  /\ variant = "toolbar"
  /\ s \in toolbars
  /\ SetDiffState(toolbarHandle(DiffState, s, decision))
  /\ NoteInput({s}, decision)
  /\ UNCHANGED <<chatVars, popup>>
  /\ lastOp' = [op |-> "click", decision |-> decision]
  /\ UNCHANGED <<doc, variant, trackerVars, overlayVars>>
  /\ UNCHANGED genVars

\* ------------------------------------------------------------ document edits
\* One transaction replacing [chFrom, chTo) by ins: every extension of the
\* editor sees the change in the same step.
DocEdit(chFrom, chTo, ins) ==
  /\ chFrom <= chTo /\ chTo <= Len(doc)
  /\ chFrom < chTo \/ Len(ins) > 0
  /\ SetWorld(replaceRange(World, chFrom, chTo, ins))
  /\ UNCHANGED <<chatVars, popup>>
  /\ lastOp' = [op |-> "edit", from |-> chFrom, to |-> chTo, ins |-> Len(ins)]
  /\ UNCHANGED <<variant, sessions, listeners, activeDiffCallbacks, toolbars, firstInput>>

\* ------------------------------------------------------------ executeAction
Min2(a, b) == IF a <= b THEN a ELSE b

\* The end offset of the line of d that holds the offset off.
LineEnd(d, off) ==
  CHOOSE e \in off..Len(d) :
    /\ e = Len(d) \/ d[e + 1] = "\n"
    /\ \A k \in off..(e - 1) : d[k + 1] # "\n"

\* A commit that does not look at the abort signal.
commitAborted(w, r) ==
  LET q == w.reqs[r]
      finalText == Trim(q.accumulatedText)
      done == [w EXCEPT !.reqs[r].commits = @ + 1] IN
  IF finalText = <<>> THEN w
  ELSE replaceRange(done, Len(w.doc), Len(w.doc), finalText)

\* A commit that tests the accumulated text without trimming it.
commitUntrimmed(w, r) ==
  LET q == w.reqs[r]
      finalText == q.accumulatedText
      done == [w EXCEPT !.reqs[r].commits = @ + 1] IN
  IF q.aborted \/ finalText = <<>> THEN w
  ELSE replaceRange(done, Len(w.doc), Len(w.doc), finalText)

\* The commit of call r at the end of its finally block: nothing when the
\* signal is aborted or the trimmed text is empty, else one replaceRange, over
\* the mapped selection in replace mode and at the start of the line after
\* the mapped selection otherwise (the end of the document when there is no
\* such line).
commit(w, r) ==
  LET q == w.reqs[r]
      finalText == Trim(q.accumulatedText)
      trackedRange == IF q.selectionTrackerId # NoId
                      THEN getTrackedRangeIn(w.tr.ranges, q.selectionTrackerId)
                      ELSE NotFound
      mappedRange == IF trackedRange.found THEN trackedRange
                     ELSE [from |-> Min2(q.cursorOffsetFrom, Len(w.doc)),
                           to |-> Min2(q.cursorOffsetTo, Len(w.doc)),
                           insertAfter |-> Min2(q.cursorOffsetTo, Len(w.doc))]
      lineEnd == LineEnd(w.doc, mappedRange.insertAfter)
      isLastLine == lineEnd = Len(w.doc)
      text == PluginProcessText(finalText, q.selection)
      done == [w EXCEPT !.reqs[r].commits = @ + 1] IN
  IF q.aborted \/ finalText = <<>> THEN w
  ELSE IF q.replaceSelection /\ q.selection # <<>>
  THEN replaceRange(done, mappedRange.from, mappedRange.to, finalText)
  ELSE IF isLastLine
  THEN replaceRange(done, Len(w.doc), Len(w.doc), <<"\n">> \o text)
  ELSE replaceRange(done, lineEnd + 1, lineEnd + 1, text)

\* What is left of a call that has returned: its locals are gone, the
\* record keeps what the call did.
Returned(q) ==
  [q EXCEPT !.pc = "done", !.session = FALSE,
            !.cursorOffsetFrom = 0, !.cursorOffsetTo = 0, !.selection = <<>>,
            !.replaceSelection = FALSE, !.accumulatedText = <<>>]

\* A finally block that leaves the controller of the call in the list.
finallyTailListed(w, r) ==
  [releaseTracker(commit(w, r), r) EXCEPT !.reqs[r] = Returned(@)]

\* A finally block that returns without releasing the tracked range.
finallyTailLeaking(w, r) ==
  LET listed == [w EXCEPT !.list = SelectSeq(w.list, LAMBDA x : x # r)] IN
  [commit(listed, r) EXCEPT !.reqs[r] = Returned(@)]

\* The finally block of call r after `await session.destroy()`: the
\* controller leaves the list, the text is committed, the range is released.
finallyTail(w, r) ==
  LET listed == [w EXCEPT !.list = SelectSeq(w.list, LAMBDA x : x # r)] IN
  [releaseTracker(commit(listed, r), r) EXCEPT !.reqs[r] = Returned(@)]

\* A finally block that writes the text into the document before it awaits
\* session.destroy(), and again after.
finallyHeadCommitting(w, r) ==
  LET c == commit(w, r) IN
  IF c.reqs[r].session
  THEN [hideSpinner(c, r) EXCEPT !.reqs[r].pc = "destroy"]
  ELSE finallyTail(hideSpinner(c, r), r)

\* The finally block of call r up to its await: the overlay entry is
\* disposed; without a session there is nothing to await.
finallyHead(w, r) ==
  IF w.reqs[r].session
  THEN [hideSpinner(w, r) EXCEPT !.reqs[r].pc = "destroy"]
  ELSE finallyTail(hideSpinner(w, r), r)

\* executeAction(editor, action) up to `await createSession`, with the
\* selection [from, to) and the action's replaceSelection setting.
executeAction(from, to, replaceSelection) ==
  LET r == Len(requests) + 1 IN
  /\ from <= to /\ to <= Len(doc)
  /\ abortControllers' = Append(abortControllers, r)
  /\ SetTrackerState(trackOn(TrackerState, from, to, FreshId))
  /\ SetOverlayState(showOn(OverlayState, doc, to))
  /\ requests' = Append(requests,
       [pc |-> "createSession", aborted |-> FALSE, session |-> FALSE,
        selectionTrackerId |-> FreshId, rangeId |-> FreshId,
        spinnerId |-> idCounter + 1,
        cursorOffsetFrom |-> from, cursorOffsetTo |-> to,
        selection |-> SubSeq(doc, from + 1, to),
        replaceSelection |-> replaceSelection,
        accumulatedText |-> <<>>, commits |-> 0, failed |-> FALSE])
  /\ UNCHANGED <<chatVars, popup>>
  /\ lastOp' = [op |-> "executeAction", r |-> r]
  /\ UNCHANGED <<doc, variant, diffVars>>

\* createSession of call r resolves: the delta handler is registered and the
\* prompt is sent.
createSessionResolves(r) ==
  /\ r \in DOMAIN requests /\ requests[r].pc = "createSession"
  /\ requests' = [requests EXCEPT ![r].pc = "sendAndWait", ![r].session = TRUE]
  /\ UNCHANGED <<chatVars, popup>>
  /\ lastOp' = [op |-> "session", r |-> r]
  /\ UNCHANGED <<doc, variant, trackerVars, overlayVars, diffVars, abortControllers>>

\* createSession of call r rejects: catch, then the whole finally block.
createSessionRejects(r) ==
  /\ r \in DOMAIN requests /\ requests[r].pc = "createSession"
  /\ SetWorld(finallyHead([World EXCEPT !.reqs[r].failed = TRUE], r))
  /\ UNCHANGED <<chatVars, popup>>
  /\ lastOp' = [op |-> "finish", r |-> r, nonblank |-> FALSE, len |-> 0]
  /\ UNCHANGED <<variant, sessions, listeners, activeDiffCallbacks, toolbars, firstInput>>

\* A delta handler that does not look at the abort signal.
messageDeltaLate(r, deltaContent) ==
  LET q == requests[r]
      text == q.accumulatedText \o deltaContent IN
  /\ r \in DOMAIN requests /\ requests[r].pc = "sendAndWait"
  /\ requests' = [requests EXCEPT ![r].accumulatedText = text]
  /\ SetOverlayState(processTextOn(OverlayState, text,
                                   PluginTransform(q.selection),
                                   q.cursorOffsetTo))
  /\ UNCHANGED <<chatVars, popup>>
  /\ lastOp' = [op |-> "delta", r |-> r, dropped |-> q.aborted]
  /\ UNCHANGED <<doc, variant, trackerVars, diffVars, abortControllers>>

\* The 'assistant.message_delta' handler of call r for one chunk.
messageDelta(r, deltaContent) ==
  LET q == requests[r]
      text == q.accumulatedText \o deltaContent IN
  /\ r \in DOMAIN requests /\ requests[r].pc = "sendAndWait"
  /\ IF q.aborted
     THEN UNCHANGED <<requests, overlayVars>>
     ELSE /\ requests' = [requests EXCEPT ![r].accumulatedText = text]
          /\ SetOverlayState(processTextOn(OverlayState, text,
                                           PluginTransform(q.selection),
                                           q.cursorOffsetTo))
  /\ UNCHANGED <<chatVars, popup>>
  /\ lastOp' = [op |-> "delta", r |-> r, dropped |-> q.aborted]
  /\ UNCHANGED <<doc, variant, trackerVars, diffVars, abortControllers>>

\* sendAndWait of call r resolves (ok) or rejects: catch, then the finally
\* block up to `await session.destroy()`.
sendAndWaitSettles(r, ok) ==
  /\ r \in DOMAIN requests /\ requests[r].pc = "sendAndWait"
  /\ SetWorld(finallyHead([World EXCEPT !.reqs[r].failed = ~ok], r))
  /\ UNCHANGED <<chatVars, popup>>
  /\ lastOp' = [op |-> "streamEnd", r |-> r]
  /\ UNCHANGED <<variant, sessions, listeners, activeDiffCallbacks, toolbars, firstInput>>

\* session.destroy() of call r settles: the rest of the finally block.
destroySettles(r) ==
  /\ r \in DOMAIN requests /\ requests[r].pc = "destroy"
  /\ SetWorld(finallyTail(World, r))
  /\ UNCHANGED <<chatVars, popup>>
  /\ lastOp' = [op |-> "finish", r |-> r,
                nonblank |-> Trim(requests[r].accumulatedText) # <<>>,
                len |-> Len(requests[r].accumulatedText)]
  /\ UNCHANGED <<variant, sessions, listeners, activeDiffCallbacks, toolbars, firstInput>>

\* CopilotPlugin.onunload: every listed controller is aborted and the list
\* is emptied (stopping the SDK client touches nothing that is kept here).
onunload ==
  /\ SetWorld([AbortEach(World, abortControllers) EXCEPT !.list = <<>>])
  /\ UNCHANGED <<chatVars, popup>>
  /\ lastOp' = [op |-> "onunload", listed |-> Len(abortControllers)]
  /\ UNCHANGED <<variant, sessions, listeners, activeDiffCallbacks, toolbars, firstInput>>

\* ------------------------------------------------------------ chat
\* CopilotChatView.handleSendMessage and ChatSessionManager.sendMessage, split
\* at their awaits: buildPromptWithContext ("prompt"), createSession inside
\* getOrCreateSession ("createSession") and session.sendAndWait
\* ("sendAndWait"). The continuation of an await on a promise that is already
\* resolved runs before any other event and is part of the same step.
NoCall == 0

\* _currentDeltaHandler = null
NoHandler == [messageId |-> 0, call |-> NoCall]

\* No destroyAllSessions call is pending.
NoDestroyAll == [pending |-> FALSE, waits |-> {}]

\* The fields of the ChatSessionManager instance.
ManagerState ==
  [activeSessions |-> activeSessions, activeMessageId |-> activeMessageId,
   handlerRegistered |-> handlerRegistered,
   currentDeltaHandler |-> currentDeltaHandler,
   sessionHandlers |-> sessionHandlers, sessionThread |-> sessionThread,
   destroying |-> destroying, destroyAll |-> destroyAll,
   destroyedSessions |-> destroyedSessions]

SetManagerState(mg) ==
  /\ activeSessions' = mg.activeSessions
  /\ activeMessageId' = mg.activeMessageId
  /\ handlerRegistered' = mg.handlerRegistered
  /\ currentDeltaHandler' = mg.currentDeltaHandler
  /\ sessionHandlers' = mg.sessionHandlers
  /\ sessionThread' = mg.sessionThread
  /\ destroying' = mg.destroying
  /\ destroyAll' = mg.destroyAll
  /\ destroyedSessions' = mg.destroyedSessions

\* ChatSessionManager.sendMessage of call c from the point where
\* getOrCreateSession has returned the session: the message id is taken, the
\* session gets its listener unless the thread is marked as having one, and
\* the current handler becomes the closure of this call.
registerHandler(mg, c, thread, session) ==
  [mg EXCEPT !.activeMessageId = @ + 1,
             !.sessionHandlers = IF thread \in mg.handlerRegistered
                                 THEN @ ELSE @ \cup {session},
             !.handlerRegistered = @ \cup {thread},
             !.currentDeltaHandler =
                [messageId |-> mg.activeMessageId + 1, call |-> c]]

\* CopilotChatView.handleSendMessage up to `await buildPromptWithContext`:
\* the send button is disabled, the assistant message is created empty and
\* flagged as streaming, and the view gets a new AbortController.
handleSendMessage(thread) ==
  /\ chatCalls' = Append(chatCalls,
       [thread |-> thread, pc |-> "prompt", aborted |-> FALSE,
        session |-> 0, messageId |-> 0, content |-> <<>>,
        streaming |-> TRUE])
  /\ chatAbortController' = Len(chatCalls) + 1
  /\ sendButtonDisabled' = TRUE
  /\ lastOp' = [op |-> "send", call |-> Len(chatCalls) + 1]
  /\ UNCHANGED <<doc, variant, popup, trackerVars, overlayVars, diffVars, genVars, managerVars>>

\* buildPromptWithContext of call c resolves: sendMessage calls
\* getOrCreateSession, which returns the session of the thread if there is
\* one and otherwise awaits createSession.
promptResolves(c) ==
  /\ c \in DOMAIN chatCalls /\ chatCalls[c].pc = "prompt"
  /\ LET thread == chatCalls[c].thread IN
     IF thread \in DOMAIN activeSessions
     THEN /\ SetManagerState(registerHandler(ManagerState, c, thread,
                                             activeSessions[thread]))
          /\ chatCalls' = [chatCalls EXCEPT ![c].pc = "sendAndWait",
                                            ![c].session = activeSessions[thread],
                                            ![c].messageId = activeMessageId + 1]
     ELSE /\ chatCalls' = [chatCalls EXCEPT ![c].pc = "createSession"]
          /\ UNCHANGED managerVars
  /\ lastOp' = [op |-> "prompt", call |-> c]
  /\ UNCHANGED <<doc, variant, popup, trackerVars, overlayVars, diffVars, genVars,
                 chatAbortController, sendButtonDisabled>>

\* createSession of call c resolves with a new session: getOrCreateSession
\* stores and returns it, sendMessage goes on to sendAndWait.
chatSessionResolves(c) ==
  /\ c \in DOMAIN chatCalls /\ chatCalls[c].pc = "createSession"
  /\ LET thread == chatCalls[c].thread
         session == Len(sessionThread) + 1
         mg == [ManagerState EXCEPT
                  !.sessionThread = Append(@, thread),
                  !.activeSessions =
                     [t \in DOMAIN activeSessions \cup {thread} |->
                        IF t = thread THEN session ELSE activeSessions[t]]] IN
     /\ SetManagerState(registerHandler(mg, c, thread, session))
     /\ chatCalls' = [chatCalls EXCEPT ![c].pc = "sendAndWait",
                                       ![c].session = session,
                                       ![c].messageId = activeMessageId + 1]
  /\ lastOp' = [op |-> "chatSession", call |-> c]
  /\ UNCHANGED <<doc, variant, popup, trackerVars, overlayVars, diffVars, genVars,
                 chatAbortController, sendButtonDisabled>>

\* The catch block of handleSendMessage for call q: the assistant message is
\* marked as an error, and no longer as streaming, unless the signal of the
\* call is aborted.
catchError(q) == IF q.aborted THEN q ELSE [q EXCEPT !.streaming = FALSE]

\* createSession of call c rejects: getOrCreateSession returns null,
\* sendMessage throws, and handleSendMessage runs its catch and finally.
chatSessionRejects(c) ==
  /\ c \in DOMAIN chatCalls /\ chatCalls[c].pc = "createSession"
  /\ chatCalls' = [chatCalls EXCEPT ![c] = [catchError(@) EXCEPT !.pc = "done"]]
  /\ chatAbortController' = NoCall
  /\ sendButtonDisabled' = FALSE
  /\ lastOp' = [op |-> "chatEnd", call |-> c]
  /\ UNCHANGED <<doc, variant, popup, trackerVars, overlayVars, diffVars, genVars, managerVars>>

\* The call whose onDelta a delta event of the given session reaches, NoCall
\* when it reaches none: the listener of the session passes the event to the
\* current handler, which drops it unless it holds the active message id and
\* its signal is not aborted.
deltaReceiver(mg, calls, session) ==
  LET h == mg.currentDeltaHandler IN
  IF /\ session \in mg.sessionHandlers
     /\ h # NoHandler
     /\ h.messageId = mg.activeMessageId
     /\ ~calls[h.call].aborted
  THEN h.call
  ELSE NoCall

\* An 'assistant.message_delta' event of the generation that call o started
\* with sendAndWait. The chunk is written down as the call it answers.
chatDelta(o) ==
  /\ o \in DOMAIN chatCalls /\ chatCalls[o].pc = "sendAndWait"
  /\ LET r == deltaReceiver(ManagerState, chatCalls, chatCalls[o].session) IN
     /\ chatCalls' = IF r = NoCall THEN chatCalls
                     ELSE [chatCalls EXCEPT ![r].content = Append(@, o)]
     /\ lastOp' = [op |-> "chatDelta", origin |-> o, receiver |-> r]
  /\ UNCHANGED <<doc, variant, popup, trackerVars, overlayVars, diffVars, genVars,
                 managerVars, chatAbortController, sendButtonDisabled>>

\* sendAndWait of call c settles: sendMessage returns (ok), the message is
\* marked as complete and the settings are saved, or it throws and the catch
\* block runs; then handleSendMessage reaches the end of its finally block.
chatSendAndWaitSettles(c, ok) ==
  /\ c \in DOMAIN chatCalls /\ chatCalls[c].pc = "sendAndWait"
  /\ chatCalls' = [chatCalls EXCEPT ![c] =
                     [(IF ok THEN [@ EXCEPT !.streaming = FALSE]
                             ELSE catchError(@)) EXCEPT !.pc = "done"]]
  /\ chatAbortController' = NoCall
  /\ sendButtonDisabled' = FALSE
  /\ lastOp' = [op |-> "chatEnd", call |-> c]
  /\ UNCHANGED <<doc, variant, popup, trackerVars, overlayVars, diffVars, genVars, managerVars>>

\* Map.delete: the map of threads without the record of the thread.
DeleteSession(as, thread) == [t \in DOMAIN as \ {thread} |-> as[t]]

\* ChatSessionManager.destroySession(threadId) up to `await
\* session.destroy()`; without a session for the thread it returns at once.
destroySession(thread) ==
  /\ thread \notin DOMAIN destroying
  /\ destroying' = IF thread \in DOMAIN activeSessions
                   THEN [t \in DOMAIN destroying \cup {thread} |->
                           IF t = thread THEN activeSessions[thread]
                           ELSE destroying[t]]
                   ELSE destroying
  /\ lastOp' = [op |-> "destroySession", thread |-> thread,
                waits |-> thread \in DOMAIN activeSessions]
  /\ UNCHANGED <<doc, variant, popup, trackerVars, overlayVars, diffVars, genVars,
                 activeSessions, activeMessageId, handlerRegistered,
                 currentDeltaHandler, sessionHandlers, sessionThread, destroyAll,
                 destroyedSessions, chatCalls, chatAbortController,
                 sendButtonDisabled>>

\* session.destroy() of the destroySession call for the thread settles:
\* the record of the thread is deleted.
sessionDestroyed(thread) ==
  /\ thread \in DOMAIN destroying
  /\ destroying' = DeleteSession(destroying, thread)
  /\ activeSessions' = DeleteSession(activeSessions, thread)
  /\ destroyedSessions' = destroyedSessions \cup {destroying[thread]}
  /\ lastOp' = [op |-> "destroyed", thread |-> thread]
  /\ UNCHANGED <<doc, variant, popup, trackerVars, overlayVars, diffVars, genVars,
                 activeMessageId, handlerRegistered, currentDeltaHandler,
                 sessionHandlers, sessionThread, destroyAll,
                 chatCalls, chatAbortController, sendButtonDisabled>>

\* ChatSessionManager.destroyAllSessions() up to `await Promise.all`: a
\* destroySession is started for every thread that has a session.
destroyAllSessions ==
  /\ ~destroyAll.pending
  /\ destroying = <<>>
  /\ destroying' = activeSessions
  /\ destroyAll' = [pending |-> TRUE, waits |-> DOMAIN activeSessions]
  /\ lastOp' = [op |-> "destroyAllSessions"]
  /\ UNCHANGED <<doc, variant, popup, trackerVars, overlayVars, diffVars, genVars,
                 activeSessions, activeMessageId, handlerRegistered,
                 currentDeltaHandler, sessionHandlers, sessionThread,
                 destroyedSessions, chatCalls, chatAbortController,
                 sendButtonDisabled>>

\* Every destroySession of the destroyAllSessions call has returned:
\* activeSessions.clear().
destroyAllSettles ==
  /\ destroyAll.pending
  /\ destroyAll.waits \cap DOMAIN destroying = {}
  /\ activeSessions' = <<>>
  /\ destroyAll' = NoDestroyAll
  /\ lastOp' = [op |-> "destroyedAll"]
  /\ UNCHANGED <<doc, variant, popup, trackerVars, overlayVars, diffVars, genVars,
                 activeMessageId, handlerRegistered, currentDeltaHandler,
                 sessionHandlers, sessionThread, destroying, destroyedSessions,
                 chatCalls, chatAbortController, sendButtonDisabled>>

\* CopilotChatView.handleAbort, the Escape key of the chat input.
handleAbort ==
  /\ chatCalls' = IF chatAbortController # NoCall
                  THEN [chatCalls EXCEPT ![chatAbortController].aborted = TRUE]
                  ELSE chatCalls
  /\ chatAbortController' = NoCall
  /\ sendButtonDisabled' = IF chatAbortController # NoCall
                           THEN FALSE ELSE sendButtonDisabled
  /\ lastOp' = [op |-> "chatEscape", call |-> chatAbortController]
  /\ UNCHANGED <<doc, variant, popup, trackerVars, overlayVars, diffVars, genVars, managerVars>>

\* ------------------------------------------------------------ inline edit popup
\* The InlineEditPopup as its constructor leaves it: the input is empty, the
\* mode is 'append', the keydown listener is on the input and the container
\* is not in the document. `clicked` is history: the mode button clicked last.
NewPopup ==
  [value |-> <<>>, mode |-> "append", listening |-> TRUE, attached |-> FALSE,
   clicked |-> "none"]

\* No callback was called.
NoCallback == [called |-> "none", instruction |-> <<>>, mode |-> "none"]

\* An onSubmit that passes the text of the input as it is.
handleSubmitUntrimmed(p) ==
  IF p.value # <<>>
  THEN [called |-> "submit", instruction |-> p.value, mode |-> p.mode]
  ELSE NoCallback

\* An onSubmit that always passes the mode the popup started with.
handleSubmitDefaultMode(p) ==
  IF Trim(p.value) # <<>>
  THEN [called |-> "submit", instruction |-> Trim(p.value), mode |-> "append"]
  ELSE NoCallback

\* InlineEditPopup.handleSubmit: the callback it calls.
handleSubmit(p) ==
  IF Trim(p.value) # <<>>
  THEN [called |-> "submit", instruction |-> Trim(p.value), mode |-> p.mode]
  ELSE NoCallback

\* InlineEditPopup.keydownHandler: the callback it calls for a key.
popupKeydownHandler(p, key, shiftKey) ==
  IF key = "Enter" /\ ~shiftKey THEN handleSubmit(p)
  ELSE IF key = "Escape"
  THEN [called |-> "dismiss", instruction |-> <<>>, mode |-> "none"]
  ELSE NoCallback

PopupFrame ==
  UNCHANGED <<doc, variant, trackerVars, overlayVars, diffVars, genVars, chatVars>>

\* InlineEditPopup.show
popupShow ==
  /\ popup' = [popup EXCEPT !.attached = TRUE]
  /\ lastOp' = [op |-> "popupShow"]
  /\ PopupFrame

\* InlineEditPopup.dismiss
popupDismiss ==
  /\ popup' = [popup EXCEPT !.attached = FALSE, !.listening = FALSE]
  /\ lastOp' = [op |-> "popupDismiss"]
  /\ PopupFrame

\* The user edits the text of the input.
popupInput(text) ==
  /\ popup.attached
  /\ popup' = [popup EXCEPT !.value = text]
  /\ lastOp' = [op |-> "popupInput"]
  /\ PopupFrame

\* A click on the mode button of mode m.
popupClickMode(m) ==
  /\ popup.attached
  /\ popup' = [popup EXCEPT !.mode = m, !.clicked = m]
  /\ lastOp' = [op |-> "popupMode", mode |-> m]
  /\ PopupFrame

\* A click on the Go button.
popupClickGo ==
  /\ popup.attached
  /\ lastOp' = [op |-> "popupGo", callback |-> handleSubmit(popup)]
  /\ UNCHANGED popup
  /\ PopupFrame

\* A keydown event on the input: the handler runs while it is registered.
popupKeyDown(key, shiftKey) ==
  /\ popup.attached
  /\ lastOp' = [op |-> "popupKey", key |-> key, shiftKey |-> shiftKey,
                handled |-> popup.listening,
                callback |-> IF popup.listening
                             THEN popupKeydownHandler(popup, key, shiftKey)
                             ELSE NoCallback]
  /\ UNCHANGED popup
  /\ PopupFrame

\* ------------------------------------------------------------ tracker specification
Xs(n) == Repeat("x", n)

NoOverlay ==
  /\ entries = <<>>
  /\ positionToId = <<>>
  /\ idCounter = 0
  /\ decorations = <<>>
  /\ shownAt = <<>>

NoGen ==
  /\ requests = <<>>
  /\ abortControllers = <<>>

NoChat ==
  /\ activeSessions = <<>>
  /\ activeMessageId = 0
  /\ handlerRegistered = {}
  /\ currentDeltaHandler = NoHandler
  /\ sessionHandlers = {}
  /\ sessionThread = <<>>
  /\ destroying = <<>>
  /\ destroyAll = NoDestroyAll
  /\ destroyedSessions = {}
  /\ chatCalls = <<>>
  /\ chatAbortController = NoCall
  /\ sendButtonDisabled = FALSE

NoDiff ==
  /\ sessions = <<>>
  /\ listeners = <<>>
  /\ activeDiffCallbacks = NoSession
  /\ diffDeco = {}
  /\ toolbars = {}
  /\ firstInput = <<>>

InitTracker ==
  /\ doc \in {Xs(n) : n \in 0..MaxDocLen}
  /\ ranges = <<>>
  /\ nextRangeId = 0
  /\ issuedIds = <<>>
  /\ releasedIds = {}
  /\ NoOverlay
  /\ variant = "widget" /\ NoDiff
  /\ NoGen
  /\ NoChat
  /\ popup = NewPopup
  /\ lastOp = NoOp

RegisterStep ==
  \E f \in 0..Len(doc), t \in 0..Len(doc) :
    /\ Len(issuedIds) < MaxRanges
    /\ trackSelectionRange(f, t)

ReleaseStep == \E id \in 1..(MaxRanges + 1) : releaseTrackedRange(id)

QueryStep == \E id \in 1..(MaxRanges + 1) : Query(id)

EditStep ==
  \E a \in 0..Len(doc), b \in 0..Len(doc), n \in 0..2 :
    /\ Len(doc) - (b - a) + n <= MaxDocLen
    /\ DocEdit(a, b, Xs(n))

NextTracker == RegisterStep \/ ReleaseStep \/ QueryStep \/ EditStep

SpecTracker == InitTracker /\ [][NextTracker]_vars

\* The wide tracker specification: a long document, one range, and edits of
\* one or five characters, so that the range [10, 20) and an insertion of five
\* characters at offset 10 are among the cases.
InitTrackerWide ==
  /\ doc = Xs(MaxWideDoc - 5)
  /\ ranges = <<>>
  /\ nextRangeId = 0
  /\ issuedIds = <<>>
  /\ releasedIds = {}
  /\ NoOverlay
  /\ variant = "widget" /\ NoDiff
  /\ NoGen
  /\ NoChat
  /\ popup = NewPopup
  /\ lastOp = NoOp

RegisterWide ==
  \E f \in 0..Len(doc), t \in 0..Len(doc) :
    /\ Len(issuedIds) < 1
    /\ trackSelectionRange(f, t)

InsertWide ==
  \E a \in 0..Len(doc), n \in {1, 5} :
    /\ Len(doc) + n <= MaxWideDoc
    /\ DocEdit(a, a, Xs(n))

DeleteWide ==
  \E a \in 0..Len(doc) :
    /\ a + 5 <= Len(doc)
    /\ Len(doc) = MaxWideDoc
    /\ DocEdit(a, a + 5, <<>>)

NextTrackerWide == RegisterWide \/ InsertWide \/ DeleteWide

SpecTrackerWide == InitTrackerWide /\ [][NextTrackerWide]_vars

\* ------------------------------------------------------------ overlay specification
NoTracker ==
  /\ ranges = <<>>
  /\ nextRangeId = 0
  /\ issuedIds = <<>>
  /\ releasedIds = {}

\* The documents of at most n characters made of letters and line breaks.
Docs(n) == UNION {[1..k -> {"x", "\n"}] : k \in 0..n}

\* The texts a generation streams into the overlay specification.
OverlayTexts == {<<" ">>, <<"a">>, <<"a", "b">>}

InitOverlay ==
  /\ doc \in Docs(MaxOverlayDoc)
  /\ NoTracker
  /\ NoOverlay
  /\ variant = "widget" /\ NoDiff
  /\ NoGen
  /\ NoChat
  /\ popup = NewPopup
  /\ lastOp = NoOp

ShowStep ==
  \E p \in 0..Len(doc) :
    /\ idCounter < MaxShows
    /\ show(p)

HideStep == \E id \in 1..(MaxShows + 1) : hide(id)

ProcessStep ==
  \E t \in OverlayTexts, p \in {NoPosition} \cup 0..MaxOverlayDoc :
    processText(t, NoTransform, p)

RenderStep == \E id \in DOMAIN entries : Render(id)

OverlayEditStep ==
  \E a \in 0..Len(doc), b \in 0..Len(doc), ins \in Docs(1) :
    /\ Len(doc) - (b - a) + Len(ins) <= MaxOverlayDoc
    /\ DocEdit(a, b, ins)

NextOverlay ==
  ShowStep \/ HideStep \/ ProcessStep \/ RenderStep \/ OverlayEditStep

SpecOverlay == InitOverlay /\ [][NextOverlay]_vars

\* The remapping specification: overlay entries over documents of up to
\* MaxRemapDoc characters and line breaks, under every single-span edit.
InitRemap ==
  /\ doc \in Docs(MaxRemapDoc - 1)
  /\ NoTracker
  /\ NoOverlay
  /\ variant = "widget" /\ NoDiff
  /\ NoGen
  /\ NoChat
  /\ popup = NewPopup
  /\ lastOp = NoOp

RemapShow ==
  \E p \in 0..Len(doc) :
    /\ idCounter < MaxShows
    /\ show(p)

RemapEdit ==
  \E a \in 0..Len(doc), b \in 0..Len(doc), ins \in Docs(MaxRemapInsert) :
    /\ Len(doc) - (b - a) + Len(ins) <= MaxRemapDoc
    /\ DocEdit(a, b, ins)

NextRemap == RemapShow \/ RemapEdit

SpecRemap == InitRemap /\ [][NextRemap]_vars

\* The widget specification: one overlay entry over a fixed document, fed
\* with every text of at most MaxTextLen characters.
Alphabet == {"a", "b"}

Strings(n) == UNION {[1..k -> Alphabet] : k \in 0..n}

\* Texts with white space at either end, and white space alone.
SpacedTexts == {<<" ">>, <<" ", "\n">>, <<" ", "a">>, <<"a", " ">>, <<"a", " ", "b">>}

WidgetTexts == Strings(MaxTextLen) \cup SpacedTexts

InitWidget ==
  /\ doc = <<>>
  /\ NoTracker
  /\ NoOverlay
  /\ variant = "widget" /\ NoDiff
  /\ NoGen
  /\ NoChat
  /\ popup = NewPopup
  /\ lastOp = NoOp

ShowWidget ==
  \E p \in 0..Len(doc) :
    /\ idCounter < 1
    /\ show(p)

HideWidget == \E id \in 1..2 : hide(id)

ProcessWidget ==
  \E t \in WidgetTexts, f \in Transforms, p \in {NoPosition} \cup 0..Len(doc) :
    processText(t, f, p)

NextWidget == ShowWidget \/ HideWidget \/ ProcessWidget \/ RenderStep

SpecWidget == InitWidget /\ [][NextWidget]_vars

\* ------------------------------------------------------------ diff review specification
InitDiff ==
  /\ doc \in {Xs(n) : n \in 1..MaxDiffDoc}
  /\ NoTracker
  /\ NoOverlay
  /\ variant \in {"widget", "toolbar"}
  /\ NoDiff
  /\ NoGen
  /\ NoChat
  /\ popup = NewPopup
  /\ lastOp = NoOp

StartStep ==
  \E f \in 0..Len(doc), t \in 0..Len(doc), newText \in {"X", "Y"} :
    /\ Len(sessions) < MaxSessions
    /\ showInlineDiff(f, t, newText)

KeyStep == \E key \in Keys : KeyDown(key)

ClickWidgetStep == \E d \in {"keep", "undo"} : ClickWidgetButton(d)

ClickToolbarStep ==
  \E s \in 1..MaxSessions, d \in {"keep", "undo"} : ClickToolbarButton(s, d)

DiffEditStep ==
  \E a \in 0..Len(doc), b \in 0..Len(doc), n \in 0..1 :
    /\ Len(doc) - (b - a) + n <= MaxDiffDoc
    /\ DocEdit(a, b, Xs(n))

NextDiff ==
  StartStep \/ KeyStep \/ ClickWidgetStep \/ ClickToolbarStep \/ DiffEditStep

SpecDiff == InitDiff /\ [][NextDiff]_vars

\* The same under continued input: a Tab, Enter or Escape keydown that would
\* change something is eventually delivered.
DecisiveKeyStep == \E key \in {"Tab", "Enter", "Escape"} : KeyDown(key)

SpecDiffFair == InitDiff /\ [][NextDiff]_vars /\ WF_vars(DecisiveKeyStep)

\* ------------------------------------------------------------ generation specification
\* The chunks the generation channel delivers (deltaContent may be empty).
Chunks == {<<>>, <<"x">>, <<" ">>}

InitGen ==
  /\ doc = Xs(MaxGenDoc)
  /\ NoTracker
  /\ NoOverlay
  /\ variant = "widget" /\ NoDiff
  /\ NoGen
  /\ NoChat
  /\ popup = NewPopup
  /\ lastOp = NoOp

ExecuteStep ==
  \E f \in 0..MaxGenDoc, t \in 0..MaxGenDoc, replaceSelection \in BOOLEAN :
    /\ Len(requests) < MaxRequests
    /\ executeAction(f, t, replaceSelection)

SessionStep == \E r \in DOMAIN requests : createSessionResolves(r)

SessionFailStep == \E r \in DOMAIN requests : createSessionRejects(r)

DeltaStep ==
  \E r \in DOMAIN requests, c \in Chunks :
    /\ Len(requests[r].accumulatedText) + Len(c) <= MaxAccum
    /\ messageDelta(r, c)

StreamEndStep ==
  \E r \in DOMAIN requests, ok \in BOOLEAN : sendAndWaitSettles(r, ok)

FinishStep == \E r \in DOMAIN requests : destroySettles(r)

GenKeyStep == \E key \in {"Escape", "a"} : KeyDown(key)

GenEditStep ==
  \E a \in 0..Len(doc), b \in 0..Len(doc), n \in 0..1 :
    /\ Len(doc) <= MaxGenDoc
    /\ Len(doc) - (b - a) + n <= MaxGenDoc
    /\ DocEdit(a, b, Xs(n))

NextGen ==
  \/ ExecuteStep \/ SessionStep \/ SessionFailStep \/ DeltaStep
  \/ StreamEndStep \/ FinishStep \/ GenKeyStep \/ GenEditStep

SpecGen == InitGen /\ [][NextGen]_vars

\* The generation specification for the ends of a call: calls over the whole
\* document, text chunks, the Escape key, and every promise a call awaits
\* (createSession, sendAndWait, session.destroy) settling at some time.
ExecuteWhole ==
  \E replaceSelection \in BOOLEAN :
    /\ Len(requests) < MaxRequests
    /\ executeAction(0, Len(doc), replaceSelection)

DeltaText ==
  \E r \in DOMAIN requests, c \in Chunks \ {<<>>} :
    /\ Len(requests[r].accumulatedText) + Len(c) <= MaxStream
    /\ messageDelta(r, c)

EscapeStep == KeyDown("Escape")

NextGenFair ==
  \/ ExecuteWhole \/ SessionStep \/ SessionFailStep \/ DeltaText
  \/ StreamEndStep \/ FinishStep \/ EscapeStep

\* Call r is suspended at the await p.
Awaiting(r, p) == r \in DOMAIN requests /\ requests[r].pc = p

\* Weak fairness of the steps that settle an awaited promise, resolving or
\* rejecting it. Such a step is enabled exactly while the call is suspended
\* at that await and always leaves it, so weak fairness of it says that no
\* call stays suspended at that await for ever: for createSession this is
\* WF_vars of the resolving step (a rejection leaves the await as well), for
\* the other two awaits it is written out.
FairGen ==
  \A r \in 1..MaxRequests :
    /\ WF_vars(createSessionResolves(r))
    /\ []<>~Awaiting(r, "sendAndWait")
    /\ []<>~Awaiting(r, "destroy")

SpecGenFair == InitGen /\ [][NextGenFair]_vars /\ FairGen

\* The generation specification with the plugin being unloaded: as above,
\* and onunload at any time.
UnloadStep == onunload

NextUnload ==
  \/ ExecuteWhole \/ SessionStep \/ SessionFailStep \/ DeltaText
  \/ StreamEndStep \/ FinishStep \/ EscapeStep \/ UnloadStep

SpecUnload == InitGen /\ [][NextUnload]_vars

\* ------------------------------------------------------------ popup specification
\* One inline edit popup: texts typed into its input, clicks on its buttons,
\* keys on its input, and the popup being shown and dismissed.
PopupTexts == UNION {[1..k -> {"x", " "}] : k \in 0..MaxPopupInput}

InitPopup ==
  /\ doc = <<>>
  /\ NoTracker
  /\ NoOverlay
  /\ variant = "widget" /\ NoDiff
  /\ NoGen
  /\ NoChat
  /\ popup = NewPopup
  /\ lastOp = NoOp

PopupInputStep == \E text \in PopupTexts : popupInput(text)

PopupModeStep == \E m \in {"append", "replace"} : popupClickMode(m)

PopupKeyStep ==
  \E key \in {"Enter", "Escape", "a"}, shiftKey \in BOOLEAN :
    popupKeyDown(key, shiftKey)

NextPopup ==
  \/ popupShow \/ popupDismiss \/ PopupInputStep \/ PopupModeStep
  \/ popupClickGo \/ PopupKeyStep

SpecPopup == InitPopup /\ [][NextPopup]_vars

\* ------------------------------------------------------------ core specification
\* The three components side by side over one document: one tracked range,
\* one overlay entry and one diff review, with edits in between.
InitCore ==
  /\ doc \in {Xs(n) : n \in 0..MaxCoreDoc}
  /\ NoTracker
  /\ NoOverlay
  /\ variant \in {"widget", "toolbar"}
  /\ NoDiff
  /\ NoGen
  /\ NoChat
  /\ popup = NewPopup
  /\ lastOp = NoOp

CoreRegister ==
  \E f \in 0..Len(doc), t \in 0..Len(doc) :
    /\ Len(issuedIds) < 1
    /\ trackSelectionRange(f, t)

CoreRelease == \E id \in 1..2 : releaseTrackedRange(id)

CoreQuery == \E id \in 1..2 : Query(id)

CoreShow ==
  \E p \in 0..Len(doc) :
    /\ idCounter < 1
    /\ show(p)

CoreHide == \E id \in 1..2 : hide(id)

CoreProcess ==
  \E t \in OverlayTexts, p \in {NoPosition} \cup 0..MaxCoreDoc :
    processText(t, NoTransform, p)

CoreStart ==
  \E f \in 0..Len(doc), t \in 0..Len(doc) :
    /\ Len(sessions) < 1
    /\ showInlineDiff(f, t, "X")

CoreClickToolbar == \E d \in {"keep", "undo"} : ClickToolbarButton(1, d)

CoreEdit ==
  \E a \in 0..Len(doc), b \in 0..Len(doc), n \in 0..1 :
    /\ Len(doc) - (b - a) + n <= MaxCoreDoc
    /\ DocEdit(a, b, Xs(n))

NextCore ==
  \/ CoreRegister \/ CoreRelease \/ CoreQuery
  \/ CoreShow \/ CoreHide \/ CoreProcess \/ RenderStep
  \/ CoreStart \/ KeyStep \/ ClickWidgetStep \/ CoreClickToolbar
  \/ CoreEdit

SpecCore == InitCore /\ [][NextCore]_vars

\* ------------------------------------------------------------ escape specification
\* Diff reviews and generation requests side by side: the keys reach the
\* capture listeners of the reviews and, if not stopped, the escapeHandler.
InitEscape ==
  /\ doc = Xs(1)
  /\ NoTracker
  /\ NoOverlay
  /\ variant \in {"widget", "toolbar"}
  /\ NoDiff
  /\ NoGen
  /\ NoChat
  /\ popup = NewPopup
  /\ lastOp = NoOp

NextEscape ==
  \/ ExecuteWhole \/ SessionStep \/ StreamEndStep \/ FinishStep
  \/ StartStep \/ KeyStep \/ ClickWidgetStep \/ ClickToolbarStep

SpecEscape == InitEscape /\ [][NextEscape]_vars

\* ------------------------------------------------------------ diff decoration specification
\* Reviews over documents of up to MaxDecoDoc characters, with edits made
\* while a review is pending.
InitDeco ==
  /\ doc = Xs(MaxDecoDoc - 1)
  /\ NoTracker
  /\ NoOverlay
  /\ variant \in {"widget", "toolbar"}
  /\ NoDiff
  /\ NoGen
  /\ NoChat
  /\ popup = NewPopup
  /\ lastOp = NoOp

DecoEditStep ==
  \E a \in 0..Len(doc), b \in 0..Len(doc), n \in 0..1 :
    /\ Len(doc) - (b - a) + n <= MaxDecoDoc
    /\ DocEdit(a, b, Xs(n))

NextDeco ==
  StartStep \/ KeyStep \/ ClickWidgetStep \/ ClickToolbarStep \/ DecoEditStep

SpecDeco == InitDeco /\ [][NextDeco]_vars

\* ------------------------------------------------------------ chat specification
InitChat ==
  /\ doc = <<>>
  /\ NoTracker
  /\ NoOverlay
  /\ variant = "widget" /\ NoDiff
  /\ NoGen
  /\ NoChat
  /\ popup = NewPopup
  /\ lastOp = NoOp

ChatSendStep ==
  \E thread \in 1..MaxThreads :
    /\ Len(chatCalls) < MaxChatCalls
    /\ handleSendMessage(thread)

ChatPromptStep == \E c \in DOMAIN chatCalls : promptResolves(c)

ChatSessionStep == \E c \in DOMAIN chatCalls : chatSessionResolves(c)

ChatSessionFailStep == \E c \in DOMAIN chatCalls : chatSessionRejects(c)

ChatDeltaStep ==
  \E o \in DOMAIN chatCalls :
    /\ \A c \in DOMAIN chatCalls : Len(chatCalls[c].content) < MaxChatText
    /\ chatDelta(o)

ChatEndStep ==
  \E c \in DOMAIN chatCalls, ok \in BOOLEAN : chatSendAndWaitSettles(c, ok)

ChatEscapeStep == handleAbort

NextChat ==
  \/ ChatSendStep \/ ChatPromptStep \/ ChatSessionStep \/ ChatSessionFailStep
  \/ ChatDeltaStep \/ ChatEndStep \/ ChatEscapeStep

SpecChat == InitChat /\ [][NextChat]_vars

\* ------------------------------------------------------------ claims: range tracker
IsEdit(op) == op.op = "edit"
IsInsertion(op) == IsEdit(op) /\ op.from = op.to /\ op.ins > 0
IsDeletion(op) == IsEdit(op) /\ op.from < op.to /\ op.ins = 0

\* C4: after every sequence of edits each tracked range satisfies
\* 0 <= fromOffset <= toOffset <= documentLength.
C4_RangeWithinDocument ==
  \A id \in DOMAIN ranges :
    /\ 0 <= ranges[id].from
    /\ ranges[id].from <= ranges[id].to
    /\ ranges[id].to <= Len(doc)

\* A replacement has just been mapped through a range that started inside
\* the document and now ends at the end of the document.
C4_Witness ==
  /\ IsEdit(lastOp) /\ lastOp.from < lastOp.to /\ lastOp.ins > 0
  /\ \E id \in DOMAIN ranges :
       ranges[id].from > 0 /\ ranges[id].from < ranges[id].to /\ ranges[id].to = Len(doc)

\* C5: an insertion of n characters exactly at toOffset moves toOffset and
\* insertAfterOffset right by n, an insertion exactly at fromOffset leaves
\* fromOffset where it is; [10, 20) becomes [10, 25) when five characters are
\* inserted at offset 10; insertAfterOffset is the mapped toOffset.
C5_BoundaryBias ==
  [][\A id \in DOMAIN ranges :
       /\ id \in DOMAIN ranges'
       /\ getTrackedRange(id)'.insertAfter = ranges'[id].to
       /\ IsInsertion(lastOp') /\ lastOp'.from = ranges[id].to =>
            /\ ranges'[id].to = ranges[id].to + lastOp'.ins
            /\ getTrackedRange(id)'.insertAfter = ranges[id].to + lastOp'.ins
       /\ IsInsertion(lastOp') /\ lastOp'.from = ranges[id].from =>
            ranges'[id].from = ranges[id].from
       /\ (IsInsertion(lastOp') /\ lastOp'.from = 10 /\ lastOp'.ins = 5
            /\ ranges[id] = [from |-> 10, to |-> 20]) =>
            ranges'[id] = [from |-> 10, to |-> 25]
    ]_vars

\* The range registered over [10, 20) is [10, 25) after five characters were
\* inserted at offset 10.
C5_Witness ==
  /\ IsInsertion(lastOp) /\ lastOp.from = 10 /\ lastOp.ins = 5
  /\ Len(doc) = 25
  /\ \E id \in DOMAIN ranges : ranges[id] = [from |-> 10, to |-> 25]

\* C6: a deletion covering the whole span of a tracked range leaves the range
\* registered, of zero width, at the deletion site; no edit drops a range.
C6_CollapseNotRemoval ==
  [][IsEdit(lastOp') =>
       \A id \in DOMAIN ranges :
         /\ id \in DOMAIN ranges'
         /\ getTrackedRange(id)' # NotFound
         /\ (IsDeletion(lastOp') /\ lastOp'.from <= ranges[id].from
              /\ ranges[id].to <= lastOp'.to) =>
              /\ ranges'[id].from = lastOp'.from
              /\ ranges'[id].to = lastOp'.from
    ]_vars

\* A range of positive width was inside the span the last edit deleted and
\* is now a zero-width range at the deletion site.
C6_Witness ==
  /\ IsDeletion(lastOp) /\ lastOp.from > 0 /\ lastOp.to - lastOp.from >= 2
  /\ \E id \in DOMAIN ranges :
       ranges[id].from = lastOp.from /\ ranges[id].to = lastOp.from

\* C7: a released id is not found by any later query; releasing an id that
\* is not registered (a second release, an unknown id) changes nothing, and a
\* release leaves every other range as it was.
C7_ReleaseThenNotFound ==
  [][/\ \A id \in releasedIds' : getTrackedRange(id)' = NotFound
     /\ lastOp'.op = "query" /\ lastOp'.id \in releasedIds =>
          lastOp'.result = NotFound
     /\ lastOp'.op = "release" =>
          /\ UNCHANGED <<doc, nextRangeId, issuedIds>>
          /\ \A j \in DOMAIN ranges \ {lastOp'.id} :
               j \in DOMAIN ranges' /\ ranges'[j] = ranges[j]
          /\ lastOp'.id \notin DOMAIN ranges => UNCHANGED ranges
    ]_vars

\* A released id was queried, after an edit and a later registration, and
\* another range is still registered.
C7_Witness ==
  /\ lastOp.op = "query" /\ lastOp.id \in releasedIds
  /\ lastOp.result = NotFound
  /\ \E j \in DOMAIN ranges : j > lastOp.id

\* C8: every registration returns an id greater than every id returned
\* before, so no id is handed out twice, and it changes neither another
\* range nor the document.
C8_FreshIds ==
  [][lastOp'.op = "register" /\ issuedIds' # issuedIds =>
       /\ issuedIds' = Append(issuedIds, lastOp'.id)
       /\ \A i \in 1..Len(issuedIds) : issuedIds[i] < lastOp'.id
       /\ lastOp'.id \notin releasedIds
       /\ \A j \in DOMAIN ranges : j \in DOMAIN ranges' /\ ranges'[j] = ranges[j]
       /\ doc' = doc
    ]_vars

\* A range was registered after an earlier range had been released.
C8_Witness ==
  /\ lastOp.op = "register"
  /\ releasedIds # {}
  /\ lastOp.id \in DOMAIN ranges

\* ------------------------------------------------------------ claims: diff review
PendingSessions == {s \in DOMAIN sessions : sessions[s].decision = Pending}

\* C1: every session is resolved by the first decisive input delivered after
\* its start (Escape: undo; Tab, Enter: keep; a button: its value), and no
\* later input changes the decision.
C1_FirstInputDecides ==
  \A s \in DOMAIN sessions :
    firstInput[s] # "none" => sessions[s].decision = firstInput[s]

\* C2: a session that has resolved no longer owns a registered keydown
\* listener.
C2_ResolvedOwnsNoListener ==
  \A s \in DOMAIN sessions :
    sessions[s].decision # Pending => s \notin Range(listeners)

\* C3: at most one diff review is pending at any time.
C3_AtMostOnePending == Cardinality(PendingSessions) <= 1

\* ------------------------------------------------------------ claims: overlay engine
\* What the element of a rendered content widget shows.
Displayed(w) == w.plain \o w.marked

C10_RenderOrder ==
  /\ Len(decorations) = Cardinality(DOMAIN entries)
  /\ {decorations[i].id : i \in 1..Len(decorations)} = DOMAIN entries
  /\ \A i \in 1..Len(decorations) :
       decorations[i].pos = entries[decorations[i].id].position
  /\ \A i \in 1..Len(decorations), j \in 1..Len(decorations) :
       i < j =>
         \/ decorations[i].pos < decorations[j].pos
         \/ /\ decorations[i].pos = decorations[j].pos
            /\ decorations[i].id < decorations[j].id

\* The entry registered later is rendered first, because an edit has left it
\* at the smaller offset.
C10_Witness ==
  /\ IsEdit(lastOp)
  /\ Len(decorations) = 2
  /\ decorations[1].id > decorations[2].id
  /\ decorations[1].pos < decorations[2].pos

\* C11: once every entry that show returned has been disposed, whatever
\* processText calls and edits came in between, the engine holds no live
\* entry, renders no decoration and keeps no position-to-entry record.
C11_DisposedLeavesNothing ==
  (idCounter > 0 /\ DOMAIN entries = {}) =>
    /\ decorations = <<>>
    /\ DOMAIN positionToId = {}

\* The live entries that were shown at position p.
RegisteredAt(p) == {id \in DOMAIN entries : shownAt[id] = p}

\* C21: a processText call that names a position updates the one entry shown
\* at that position and leaves every other live entry as it was; a call that
\* names no position updates every live entry; a call that names a position
\* where no live entry was shown changes nothing. (Positions at which several
\* live entries were shown are left out: the first two parts speak of one
\* entry.)
C21_RoutedUpdate ==
  [][(lastOp'.op = "processText" /\ lastOp'.applied) =>
       LET p == lastOp'.position
           n == lastOp'.display
           reached == IF p = NoPosition THEN DOMAIN entries ELSE RegisteredAt(p) IN
       (p = NoPosition \/ Cardinality(reached) <= 1) =>
         /\ DOMAIN entries' = DOMAIN entries
         /\ \A id \in DOMAIN entries :
              entries'[id] = IF id \in reached THEN updateEntry(entries[id], n)
                             ELSE entries[id]
         /\ reached = {} => decorations' = decorations
    ]_vars

\* C22: a processText call whose text is empty or white space only changes
\* nothing: every entry keeps its state and its text (a waiting entry stays
\* waiting), no display text is computed, and the decorations stay as they
\* were.
C22_BlankTextNoOp ==
  [][(lastOp'.op = "processText" /\ Trim(lastOp'.text) = <<>>) =>
       /\ UNCHANGED <<entries, positionToId, idCounter, decorations>>
       /\ ~lastOp'.applied /\ lastOp'.display = <<>>
    ]_vars

\* White space, addressed to a waiting entry and to be transformed, has
\* left the entry waiting.
C22_Witness ==
  /\ lastOp.op = "processText"
  /\ lastOp.text = <<" ", "\n">>
  /\ lastOp.position # NoPosition
  /\ UpdateTargets(lastOp.position) # {}
  /\ \A id \in UpdateTargets(lastOp.position) : entries[id].widget.kind = "loader"

\* The offset at which the line of d that holds the offset p ends.
EndOfLineOf(d, p) ==
  CHOOSE e \in p..Len(d) :
    /\ e = Len(d) \/ d[e + 1] = "\n"
    /\ \A k \in (p + 1)..e : d[k] # "\n"

\* C23: every edit maps the position of every live entry with the bias to
\* the left: text inserted at the position leaves it, text inserted before
\* it shifts it by the inserted length, a deletion that covers it moves it to
\* where the deletion starts; after the edit the end-of-line flag says
\* whether the position is the end of its line in the new document; and the
\* position lies within the document in every state.
C23_RemapStickyLeft ==
  /\ [](\A id \in DOMAIN entries : entries[id].position \in 0..Len(doc))
  /\ [][IsEdit(lastOp') =>
         /\ DOMAIN entries' = DOMAIN entries
         /\ \A id \in DOMAIN entries :
              LET a == entries[id].position
                  b == entries'[id].position
                  from == lastOp'.from
                  to == lastOp'.to
                  ins == lastOp'.ins IN
              /\ (from = to /\ a = from) => b = a
              /\ (from = to /\ a > from) => b = a + ins
              /\ a < from => b = a
              /\ (from < to /\ ins = 0 /\ from <= a /\ a <= to) => b = from
              /\ (from < to /\ a >= to) => b = a + ins - (to - from)
              /\ (from < to /\ from <= a /\ a < to) => b = from
              /\ entries'[id].isEndOfLine = (b = EndOfLineOf(doc', b))
      ]_vars

\* Text was inserted where one entry sits and before another: the first
\* has stayed and is no longer at the end of its line, the second has moved.
C23_Witness ==
  /\ IsInsertion(lastOp)
  /\ \E i \in DOMAIN entries, j \in DOMAIN entries :
       /\ entries[i].position = lastOp.from
       /\ ~entries[i].isEndOfLine
       /\ entries[j].position > lastOp.from + lastOp.ins
       /\ entries[j].isEndOfLine

\* C24: the dispose of a live entry removes that entry and no other and
\* renders the entries that remain; the dispose of an entry that is gone, or
\* of an id that was never handed out, changes no entry, no
\* position-to-entry record and no decoration.
C24_DisposeIdempotent ==
  [][lastOp'.op = "hide" =>
       IF lastOp'.id \in DOMAIN entries
       THEN /\ lastOp'.removed
            /\ DOMAIN entries' = DOMAIN entries \ {lastOp'.id}
            /\ \A j \in DOMAIN entries' : entries'[j] = entries[j]
            /\ decorations' = BuildDecorations(entries')
            /\ {decorations'[i].id : i \in 1..Len(decorations')} = DOMAIN entries'
       ELSE /\ ~lastOp'.removed
            /\ UNCHANGED <<entries, positionToId, idCounter, decorations>>
    ]_vars

\* A handle was disposed a second time while another entry is live and
\* routed.
C24_Witness ==
  /\ lastOp.op = "hide" /\ ~lastOp.removed
  /\ lastOp.id <= idCounter
  /\ DOMAIN entries # {}
  /\ DOMAIN positionToId # {}
  /\ decorations # <<>>

\* C29: as long as an entry is live, a processText call that names the
\* position the entry was shown at updates that entry, whatever edits, shows
\* and disposes of other entries have happened since.
C29_AddressableByAnchor ==
  [][(lastOp'.op = "processText" /\ lastOp'.applied
        /\ lastOp'.position # NoPosition) =>
       \A id \in RegisteredAt(lastOp'.position) :
         /\ id \in UpdateTargets(lastOp'.position)
         /\ entries'[id] = updateEntry(entries[id], lastOp'.display)
    ]_vars

\* C31: an entry that is streaming never shows the loader again, an entry
\* that was disposed never becomes live again, and show hands out an id
\* greater than every id handed out before.
C31_ForwardOnly ==
  [][/\ \A id \in DOMAIN entries \cap DOMAIN entries' :
          entries[id].widget.kind = "content" => entries'[id].widget.kind = "content"
     /\ \A id \in 1..idCounter :
          id \notin DOMAIN entries => id \notin DOMAIN entries'
     /\ idCounter' >= idCounter
     /\ DOMAIN entries' \subseteq 1..idCounter'
     /\ DOMAIN entries' \ DOMAIN entries # {} =>
          /\ lastOp'.op = "show"
          /\ DOMAIN entries' \ DOMAIN entries = {idCounter'}
          /\ idCounter' > idCounter
    ]_vars

\* The first entry has been disposed and the second, shown since, has
\* received a second text while streaming.
C31_Witness ==
  /\ lastOp.op = "processText" /\ lastOp.applied
  /\ DOMAIN entries = {2}
  /\ entries[2].widget.kind = "content"
  /\ entries[2].widget.rendered
  /\ entries[2].widget.marked # <<>>

\* C32: the decorations and the live entries correspond one to one: as
\* many widgets as entries, and for every entry one widget of its kind at its
\* current position, after the line's content when the entry's end-of-line
\* flag is set and before the next character otherwise.
C32_DecorationsMatchEntries ==
  /\ Len(decorations) = Cardinality(DOMAIN entries)
  /\ \A id \in DOMAIN entries :
       \E i \in 1..Len(decorations) :
         /\ decorations[i].id = id
         /\ \A k \in 1..Len(decorations) : decorations[k].id = id => k = i
         /\ decorations[i].pos = entries[id].position
         /\ decorations[i].kind = entries[id].widget.kind
         /\ decorations[i].side = 1 <=> entries[id].isEndOfLine
         /\ decorations[i].side = -1 <=> ~entries[id].isEndOfLine

\* After an edit a streaming entry is rendered in the middle of a line and
\* a waiting one at the end of a line.
C32_Witness ==
  /\ IsEdit(lastOp)
  /\ \E i \in 1..Len(decorations), j \in 1..Len(decorations) :
       /\ decorations[i].side = -1 /\ decorations[i].kind = "content"
       /\ decorations[j].side = 1 /\ decorations[j].kind = "loader"

\* The text the widget shows, or will show when the editor draws it.
ShownText(w) == IF w.rendered THEN Displayed(w) ELSE w.text

\* C20: a processText call with text that is not blank leaves every entry it
\* reaches in the streaming state, showing transform(text): the first call
\* replaces the loader, a later call replaces the shown text, whether the
\* widget has been drawn or not.
C20_StreamingShowsText ==
  [][(lastOp'.op = "processText" /\ lastOp'.applied) =>
       \A id \in UpdateTargets(lastOp'.position) :
         /\ id \in DOMAIN entries'
         /\ entries'[id].widget.kind = "content"
         /\ ShownText(entries'[id].widget) = lastOp'.display
    ]_vars

\* ------------------------------------------------------------ claims: generation requests
\* The calls that are streaming or about to: not returned, not aborted, and
\* not yet in their finally block.
InFlight == {r \in DOMAIN requests :
               requests[r].pc \in {"createSession", "sendAndWait"} /\ ~requests[r].aborted}

\* The calls that were aborted or have reached their finally block.
Ended == {r \in DOMAIN requests :
            requests[r].aborted \/ requests[r].pc \in {"destroy", "done"}}

\* C12: with several generations in flight, the abort or the end of one
\* leaves the tracked range and the overlay entry of every other one in
\* place, and a later chunk of another generation still updates that
\* generation's own overlay entry.
C12_OthersUnaffected ==
  [][\A r \in InFlight :
       /\ r \in InFlight' =>
            /\ requests'[r].selectionTrackerId \in DOMAIN ranges'
            /\ requests'[r].spinnerId \in DOMAIN entries'
       /\ (/\ lastOp'.op = "delta" /\ lastOp'.r = r
           /\ Ended \ {r} # {}
           /\ Trim(requests'[r].accumulatedText) # <<>>) =>
            /\ requests'[r].spinnerId \in DOMAIN entries'
            /\ entries'[requests'[r].spinnerId].widget.kind = "content"
    ]_vars

\* C13: the step in which the abort signal of a generation fires releases
\* its tracked range and removes its overlay entry; a chunk of that
\* generation delivered afterwards is dropped: the accumulated text and every
\* overlay entry stay as they were.
C13_AbortTearsDownAndDrops ==
  [][/\ \A r \in DOMAIN requests :
          (~requests[r].aborted /\ requests'[r].aborted) =>
            /\ requests[r].selectionTrackerId \notin DOMAIN ranges'
            /\ requests'[r].selectionTrackerId = NoId
            /\ requests[r].spinnerId \notin DOMAIN entries'
            /\ \A i \in 1..Len(decorations') :
                 decorations'[i].id # requests[r].spinnerId
     /\ (lastOp'.op = "delta" /\ requests[lastOp'.r].aborted) =>
          /\ lastOp'.dropped
          /\ requests' = requests
          /\ UNCHANGED overlayVars
    ]_vars

\* A chunk arrived for a generation that had streamed text and was then
\* aborted, while another generation shows an overlay entry.
C13_Witness ==
  /\ lastOp.op = "delta" /\ lastOp.dropped
  /\ requests[lastOp.r].aborted
  /\ requests[lastOp.r].accumulatedText # <<>>
  /\ DOMAIN entries # {}

\* The step that ends call r: the last part of its finally block.
Finishes(r) ==
  /\ lastOp'.op = "finish" /\ lastOp'.r = r
  /\ requests[r].pc # "done" /\ requests'[r].pc = "done"

\* C14: a generation whose abort signal fired before its commit step, at
\* whatever point, ends with its overlay entry removed and its tracked range
\* released, and mutates the document neither then nor before.
C14_AbortedNeverCommits ==
  [][\A r \in DOMAIN requests' :
       requests'[r].aborted =>
         /\ requests'[r].commits = 0
         /\ r \in DOMAIN requests /\ Finishes(r) =>
              /\ doc' = doc
              /\ requests'[r].rangeId \notin DOMAIN ranges'
              /\ requests'[r].spinnerId \notin DOMAIN entries'
    ]_vars

\* An aborted generation that had accumulated text has ended without a
\* commit.
C14_Witness ==
  /\ lastOp.op = "finish" /\ lastOp.nonblank
  /\ requests[lastOp.r].aborted
  /\ requests[lastOp.r].pc = "done"
  /\ requests[lastOp.r].commits = 0

\* C15: every generation that registered a tracked range releases it on
\* every path to its end (commit, empty output, upstream error, abort): a
\* call that was started eventually has returned with its range out of the
\* registry, and once every call has returned the registry is empty.
C15_RangeEventuallyReleased ==
  /\ \A r \in 1..MaxRequests :
       (r \in DOMAIN requests) ~>
         (/\ r \in DOMAIN requests
          /\ requests[r].pc = "done"
          /\ requests[r].rangeId \notin DOMAIN ranges)
  /\ []((\A r \in DOMAIN requests : requests[r].pc = "done") => DOMAIN ranges = {})

\* Every call has returned: one after a commit, one after an upstream
\* failure or an abort, and the registry is empty.
C15_Witness ==
  /\ Len(requests) = MaxRequests
  /\ \A r \in DOMAIN requests : requests[r].pc = "done"
  /\ \E r \in DOMAIN requests : requests[r].commits = 1
  /\ \E r \in DOMAIN requests : requests[r].aborted \/ requests[r].failed
  /\ issuedIds # <<>>
  /\ DOMAIN ranges = {}

\* C16: a generation mutates the document at most once, by the one
\* replaceRange of its commit, issued in the step that ends the call, after
\* the stream has ended; no chunk and no overlay update changes the document.
C16_SingleCommit ==
  [][/\ \A r \in DOMAIN requests' : requests'[r].commits <= 1
     /\ \A r \in DOMAIN requests :
          requests'[r].commits # requests[r].commits =>
            /\ Finishes(r)
            /\ requests[r].pc = "destroy"
            /\ requests'[r].commits = requests[r].commits + 1
     /\ doc' # doc =>
          \/ lastOp'.op = "edit"
          \/ /\ lastOp'.op = "finish"
             /\ requests'[lastOp'.r].commits = requests[lastOp'.r].commits + 1
     /\ lastOp'.op \in {"delta", "executeAction", "session", "streamEnd", "keydown"} =>
          doc' = doc
    ]_vars

\* A generation that received two chunks of text has ended with one commit,
\* which made the document longer.
C16_Witness ==
  /\ lastOp.op = "finish" /\ lastOp.nonblank /\ lastOp.len >= 2
  /\ requests[lastOp.r].commits = 1
  /\ Len(doc) > MaxGenDoc

\* C19: a generation whose channel failed (createSession or sendAndWait
\* rejected) without an abort ends as an aborted one does: its overlay entry
\* is removed, its tracked range is released and the text accumulated so far
\* is not committed.
C19_FailureUnwinds ==
  [][\A r \in DOMAIN requests :
       (Finishes(r) /\ requests'[r].failed) =>
         /\ requests'[r].commits = 0
         /\ doc' = doc
         /\ requests'[r].spinnerId \notin DOMAIN entries'
         /\ requests'[r].rangeId \notin DOMAIN ranges'
    ]_vars

\* ------------------------------------------------------------ claims: frame
\* The operations of the three components, by the name lastOp records.
ComponentOps ==
  {"show", "hide", "processText", "render", "register", "release", "query",
   "showInlineDiff", "keydown", "click"}

\* C17: no operation of the overlay engine, of the range tracker or of the
\* diff review changes the document; an edit changes it by exactly the
\* replaced span, whatever the components remap in the same step.
C17_ComponentsLeaveDocument ==
  [][/\ lastOp'.op \in ComponentOps => doc' = doc
     /\ doc' # doc => lastOp'.op = "edit"
     /\ lastOp'.op = "edit" =>
          doc' = ApplyChange(doc, lastOp'.from, lastOp'.to, Xs(lastOp'.ins))
    ]_vars

\* A diff review has been resolved by a key while a range is tracked and an
\* overlay entry shows streamed text, and the document still has its text.
C17_Witness ==
  /\ lastOp.op = "keydown" /\ lastOp.stopped
  /\ \E s \in DOMAIN sessions : sessions[s].decision # Pending
  /\ DOMAIN ranges # {}
  /\ \E id \in DOMAIN entries : entries[id].widget.kind = "content"
  /\ Len(doc) = MaxCoreDoc

\* ------------------------------------------------------------ claims: escape
\* C18: an Escape keydown that arrives while a diff review is pending is
\* consumed by the review, which resolves to undo, and does not reach the
\* plugin's escapeHandler, so no generation is aborted by it; an Escape that
\* arrives while no review is pending reaches the escapeHandler, which aborts
\* every listed generation.
C18_EscapeArbitration ==
  [][(lastOp'.op = "keydown" /\ lastOp'.key = "Escape") =>
       IF PendingSessions # {}
       THEN /\ lastOp'.stopped
            /\ \A s \in PendingSessions : sessions'[s].decision = "undo"
            /\ UNCHANGED genVars
       ELSE /\ ~lastOp'.stopped
            /\ abortControllers' = <<>>
            /\ \A r \in Range(abortControllers) : requests'[r].aborted
    ]_vars

\* C30: under continued delivery of Tab, Enter and Escape keydowns every
\* review that was started is eventually resolved, a review started while
\* another one was pending included.
C30_EveryReviewResolves ==
  \A s \in 1..MaxSessions :
    (Len(sessions) >= s) ~> (Len(sessions) >= s /\ sessions[s].decision # Pending)

\* ------------------------------------------------------------ chat sessions specification
\* Messages sent one after the other, each after the request before it has
\* terminated, on threads whose sessions are destroyed at any time.
DestroyStep == \E thread \in 1..MaxThreads : destroySession(thread)

DestroyedStep == \E thread \in 1..MaxThreads : sessionDestroyed(thread)

\* A delta event of a generation whose session has not been destroyed.
LiveDeltaStep ==
  \E o \in DOMAIN chatCalls :
    /\ \A c \in DOMAIN chatCalls : Len(chatCalls[c].content) < MaxChatText
    /\ chatCalls[o].thread \in DOMAIN activeSessions
    /\ activeSessions[chatCalls[o].thread] = chatCalls[o].session
    /\ chatDelta(o)

SessionSendStep ==
  \E thread \in 1..MaxThreads :
    /\ Len(chatCalls) < MaxSessionCalls
    /\ \A c \in DOMAIN chatCalls : chatCalls[c].pc = "done"
    /\ handleSendMessage(thread)

NextSessions ==
  \/ SessionSendStep \/ ChatPromptStep \/ ChatSessionStep \/ LiveDeltaStep
  \/ ChatEndStep \/ DestroyStep \/ DestroyedStep
  \/ destroyAllSessions \/ destroyAllSettles

SpecSessions == InitChat /\ [][NextSessions]_vars

\* ------------------------------------------------------------ claims: diff decorations
\* The decorations of the given kind.
DecoOfKind(ds, kind) == {d \in ds : d.kind = kind}

\* C28: the diff decoration set is empty before the first review and after
\* a review has been resolved; a showInlineDiff(from, to, newText) leaves
\* exactly the block widget with newText at `to` and, when from < to, the mark
\* over [from, to), whatever was there before; an edit adds no decoration,
\* leaves the decorations alone when it lies behind them and shifts them by
\* its change of length when it lies in front of them.
C28_DiffDecorations ==
  /\ [](Len(sessions) = 0 => diffDeco = {})
  /\ [][/\ (\E x \in DOMAIN sessions :
              sessions[x].decision = Pending /\ sessions'[x].decision # Pending)
            => diffDeco' = {}
        /\ lastOp'.op = "showInlineDiff" =>
             /\ \A d \in diffDeco' : d.session = lastOp'.id
             /\ \E w \in diffDeco' :
                  /\ DecoOfKind(diffDeco', "widget") = {w}
                  /\ w.from = lastOp'.to /\ w.text = lastOp'.newText
             /\ IF lastOp'.from < lastOp'.to
                THEN \E m \in diffDeco' :
                       /\ DecoOfKind(diffDeco', "mark") = {m}
                       /\ m.from = lastOp'.from /\ m.to = lastOp'.to
                ELSE DecoOfKind(diffDeco', "mark") = {}
        /\ IsEdit(lastOp') =>
             /\ Cardinality(diffDeco') <= Cardinality(diffDeco)
             /\ \A d \in diffDeco :
                  LET shift == lastOp'.ins - (lastOp'.to - lastOp'.from) IN
                  /\ lastOp'.from > d.to => d \in diffDeco'
                  /\ lastOp'.to < d.from =>
                       [d EXCEPT !.from = @ + shift, !.to = @ + shift] \in diffDeco'
       ]_vars

\* A second review was started over a non-empty span while the first was
\* pending, and an edit in front of the span has moved its two decorations.
C28_Witness ==
  /\ IsEdit(lastOp)
  /\ Len(sessions) = 2
  /\ sessions[1].decision = Pending /\ sessions[2].decision = Pending
  /\ \E m \in diffDeco, w \in diffDeco :
       /\ diffDeco = {m, w}
       /\ m.kind = "mark" /\ w.kind = "widget"
       /\ m.session = 2 /\ w.session = 2
       /\ lastOp.to < m.from
       /\ w.from = m.to

\* ------------------------------------------------------------ claims: chat
\* C25: once a newer sendMessage has taken a message id, a delta event of an
\* earlier request, whichever session it arrives on, reaches no onDelta
\* callback.
C25_SupersededDeltaIgnored ==
  [][(lastOp'.op = "chatDelta"
       /\ chatCalls[lastOp'.origin].messageId < activeMessageId) =>
       lastOp'.receiver = NoCall
    ]_vars

\* The sessions that were created for the thread.
SessionsOf(thread) == {x \in DOMAIN sessionThread : sessionThread[x] = thread}

\* C26: no thread has more than one session created for it (no session is
\* ever destroyed here), and every call on the thread that has got a session
\* has got that one.
C26_OneSessionPerThread ==
  \A thread \in 1..MaxThreads :
    /\ Cardinality(SessionsOf(thread)) <= 1
    /\ \A c \in DOMAIN chatCalls :
         (chatCalls[c].thread = thread /\ chatCalls[c].session # 0) =>
           SessionsOf(thread) = {chatCalls[c].session}

\* The calls whose sendMessage has been called and has not returned.
ChatInFlight ==
  {c \in DOMAIN chatCalls : chatCalls[c].pc \in {"createSession", "sendAndWait"}}

\* C27: Escape in the chat input aborts every request in flight, and the
\* assistant message of an aborted request is not changed by any later
\* delta.
C27_EscapeAbortsInFlight ==
  [][/\ lastOp'.op = "chatEscape" =>
          \A c \in ChatInFlight : chatCalls'[c].aborted
     /\ \A c \in DOMAIN chatCalls :
          chatCalls[c].aborted => chatCalls'[c].content = chatCalls[c].content
    ]_vars

\* ------------------------------------------------------------ claims: chat sessions
\* Call c is the first use of a session made after every earlier session of
\* its thread was destroyed, and the session is the one recorded.
OnFreshSession(c) ==
  /\ chatCalls[c].pc = "sendAndWait"
  /\ chatCalls[c].thread \in DOMAIN activeSessions
  /\ activeSessions[chatCalls[c].thread] = chatCalls[c].session
  /\ SessionsOf(chatCalls[c].thread) \ {chatCalls[c].session}
        \subseteq destroyedSessions

\* C33: once destroySession or destroyAllSessions has completed no session
\* is recorded for the thread; a request sent afterwards runs on a new
\* session that has a delta listener, and a delta event of that request,
\* while it is the newest request and not aborted, reaches its own onDelta.
C33_DestroyThenFreshSession ==
  /\ lastOp.op = "destroyed" => lastOp.thread \notin DOMAIN activeSessions
  /\ lastOp.op = "destroyedAll" => activeSessions = <<>>
  /\ \A c \in DOMAIN chatCalls :
        OnFreshSession(c) => chatCalls[c].session \in sessionHandlers
  /\ lastOp.op = "chatDelta"
       => (/\ OnFreshSession(lastOp.origin)
           /\ chatCalls[lastOp.origin].messageId = activeMessageId
           /\ ~chatCalls[lastOp.origin].aborted
           => lastOp.receiver = lastOp.origin)

\* ------------------------------------------------------------ claims: abort controllers
\* C34: the abortControllers list never holds a controller whose signal is
\* aborted; an Escape keydown and onunload abort every controller that was
\* listed and leave the list empty; the controller of a call that has
\* finished is not in the list.
C34_ListedControllersLive ==
  [][ /\ \A r \in Range(abortControllers') : ~requests'[r].aborted
      /\ \A r \in DOMAIN requests' :
            requests'[r].pc = "done" => r \notin Range(abortControllers')
      /\ (\/ lastOp'.op = "onunload"
          \/ (lastOp'.op = "keydown" /\ lastOp'.key = "Escape"))
           => /\ abortControllers' = <<>>
              /\ \A r \in Range(abortControllers) : requests'[r].aborted
    ]_vars

\* onunload has just aborted a listed call, after another call had finished
\* without being aborted.
C34_Witness ==
  /\ lastOp.op = "onunload" /\ lastOp.listed >= 1
  /\ abortControllers = <<>>
  /\ \E r \in DOMAIN requests : requests[r].aborted /\ requests[r].pc # "done"
  /\ \E r \in DOMAIN requests : ~requests[r].aborted /\ requests[r].pc = "done"

\* ------------------------------------------------------------ claims: blank output
\* C35: a generation whose accumulated text is empty or only whitespace when
\* its stream ends changes the document neither at the end of the stream nor
\* when the call returns, and returns with its overlay entry removed and its
\* tracked range released.
C35_BlankOutputNoMutation ==
  [][\A r \in DOMAIN requests :
       Trim(requests[r].accumulatedText) = <<>> =>
         /\ (lastOp'.op = "streamEnd" /\ lastOp'.r = r) =>
              /\ doc' = doc
              /\ requests'[r].commits = 0
              /\ requests[r].spinnerId \notin DOMAIN entries'
         /\ Finishes(r) =>
              /\ doc' = doc
              /\ requests'[r].commits = 0
              /\ requests'[r].spinnerId \notin DOMAIN entries'
              /\ requests'[r].rangeId \notin DOMAIN ranges'
              /\ requests'[r].selectionTrackerId = NoId
    ]_vars

\* A generation that streamed only whitespace has returned, neither aborted
\* nor failed, while the document holds text.
C35_Witness ==
  /\ lastOp.op = "finish" /\ ~lastOp.nonblank /\ lastOp.len >= 1
  /\ requests[lastOp.r].pc = "done"
  /\ ~requests[lastOp.r].aborted /\ ~requests[lastOp.r].failed
  /\ requests[lastOp.r].commits = 0
  /\ doc # <<>>

\* ------------------------------------------------------------ claims: chat request end
\* C36: in the step in which a chat request terminates, whether it completed,
\* failed or was aborted before, the send button is enabled, the view holds
\* no abort controller, and the assistant message of the request is not
\* flagged as streaming.
C36_TerminatedRequestSettled ==
  [][\A c \in DOMAIN chatCalls :
       (chatCalls[c].pc # "done" /\ chatCalls'[c].pc = "done") =>
         /\ ~sendButtonDisabled'
         /\ chatAbortController' = NoCall
         /\ ~chatCalls'[c].streaming
    ]_vars

\* ------------------------------------------------------------ claims: inline edit popup
\* The callback made by the step, for a click on Go or a key on the input.
IsPopupEvent(op) == op.op \in {"popupGo", "popupKey"}

\* C37: the popup calls onSubmit only for the Go button or Enter without
\* Shift, and only with the trimmed text of the input when that is not
\* empty; on empty or blank input these call nothing; Shift+Enter calls
\* nothing; Escape calls onDismiss; the mode passed to onSubmit is the mode
\* button clicked last, 'append' when none was clicked.
C37_SubmitOnlyNonEmpty ==
  [][IsPopupEvent(lastOp') =>
       LET cb == lastOp'.callback
           key == lastOp'.op = "popupKey"
           submitKey == key /\ lastOp'.key = "Enter" /\ ~lastOp'.shiftKey
           go == lastOp'.op = "popupGo" IN
       /\ cb.called = "submit" =>
            /\ go \/ submitKey
            /\ cb.instruction # <<>>
            /\ cb.instruction = Trim(popup.value)
            /\ ~IsSpace(Head(cb.instruction))
            /\ ~IsSpace(cb.instruction[Len(cb.instruction)])
            /\ cb.mode = IF popup.clicked = "none" THEN "append" ELSE popup.clicked
       /\ ((go \/ submitKey) /\ \A i \in DOMAIN popup.value : IsSpace(popup.value[i]))
            => cb.called = "none"
       /\ (key /\ lastOp'.key = "Enter" /\ lastOp'.shiftKey) => cb.called = "none"
       /\ (key /\ lastOp'.key = "Escape") =>
            /\ cb.called # "submit"
            /\ lastOp'.handled => cb.called = "dismiss"
    ]_vars

\* Enter without Shift has submitted, in 'replace' mode, the instruction left
\* of an input with white space around it.
C37_Witness ==
  /\ lastOp.op = "popupKey" /\ lastOp.key = "Enter" /\ ~lastOp.shiftKey
  /\ lastOp.callback.called = "submit"
  /\ lastOp.callback.mode = "replace"
  /\ lastOp.callback.instruction # popup.value

====
